---- MODULE Spec2Model ----
(***************************************************************************)
(* A model of the interpreter helpers in src/src/helpers.rs: the           *)
(* freeze-sensitive visitor and the OS string / path bridge between guest  *)
(* memory and the host.                                                    *)
(***************************************************************************)
EXTENDS Integers, Sequences, FiniteSets, TLC

(***************************************************************************)
(* Bounds of the model.                                                    *)
(***************************************************************************)
\* Largest size, in bytes, of a visited place.
MaxSize == 3
\* Largest start offset of a visited place inside its allocation.
MaxStart == 1
\* Largest number of sub-places (the visited place and the fields below it)
\* that one traversal hands to visit_value.
MaxPlaces == 3
\* Longest OS string, in units of the host's string type.
MaxLen == 2
\* Largest guest address a string operation is given.
MaxPtr == 1
\* Largest number of writes into guest memory in one run.
MaxWrites == 1
\* Largest number of arguments of a call and of parameters of a callee.
MaxArgs == 2
\* Largest number of call_function calls in one run.
MaxCalls == 1
\* Largest len argument of gen_random.
MaxGen == 2
\* Largest number of gen_random calls in one run.
MaxGenCalls == 2
\* Largest seed of the pseudo-random generator.
MaxSeed == 1

VARIABLES
    \* ---- visit_freeze_sensitive ----
    place,      \* the visited place: [ptr, size]
    root,       \* the layout the layout service gave for the visited place
    stack,      \* sub-places whose visit_value call is still to come, next first
    end_ptr,    \* helpers.rs:198, how far the place has been handled
    calls,      \* the calls of `action` made so far, in order
    nbound,     \* number of runs of the region-boundary closure (helpers.rs:201)
    kids,       \* what the direct fields of the visited place were
    nplaces,    \* number of sub-places handed to the visitor so far
    res,        \* "running", or how visit_freeze_sensitive returned
    arena,      \* the visited allocation: its bytes, the reads made of them, and
                \* the call of `action` that returned an error
    \* ---- OS strings and paths ----
    host,       \* the platform the interpreter is built for: cfg(unix), cfg(windows)
    target_os,  \* tcx.sess.target.target.target_os, the simulated guest target
    mem,        \* the bytes of the guest allocation the operations address
    os_str,     \* the host-side OsString (or Path) argument, in host units
    ptr,        \* the guest address argument
    size,       \* the capacity argument, in units
    wr,         \* what the last write was and returned
    rd,         \* what the last read since the last write was and returned
    mem0,       \* guest memory before the last write
    alloc,      \* what the last alloc_os_str_as_target_str did
    nwrites,    \* number of writes so far
    \* ---- the machine: call_function and gen_random ----
    frames,     \* the interpreter's stack of frames, innermost last
    cf,         \* the call_function call in progress, or the last one
    communicate,\* machine.communicate
    rng,        \* memory.extra.rng, the state of the seeded generator
    hostent,    \* the host's entropy source: its state and the draws made
    gr,         \* what the last gen_random was given and returned
    twin,       \* a second execution on another host, given the same calls
    \* ---- the last-error slot, libc constants and isolation ----
    last_error, \* machine.last_error: the address of the errno place
    er,         \* what the last of these helpers was given and returned
    last_set,   \* the scalar of the most recent successful set_last_error
    libc_undef  \* the libc constants that evaluate to an undefined scalar

visit_vars == <<place, root, stack, end_ptr, calls, nbound, kids, nplaces, res, arena>>
str_vars == <<host, target_os, mem, os_str, ptr, size, wr, rd, mem0, alloc, nwrites>>
err_vars == <<last_error, er, last_set, libc_undef>>
machine_vars == <<frames, cf, communicate, rng, hostent, gr, twin,
                  last_error, er, last_set, libc_undef>>
vars == <<place, root, stack, end_ptr, calls, nbound, kids, nplaces, res, arena,
          host, target_os, mem, os_str, ptr, size, wr, rd, mem0, alloc, nwrites,
          frames, cf, communicate, rng, hostent, gr, twin,
          last_error, er, last_set, libc_undef>>

(***************************************************************************)
(* Layouts.  A layout, as the visitor reads it, is the four attributes it  *)
(* inspects (is the type UnsafeCell, is it Freeze, its variants, its field *)
(* placement) and what size_and_align_of_mplace and layout.size give.      *)
(* The layout service is the environment: every visit_value step draws the *)
(* layout of the sub-place it is handed.                                   *)
(***************************************************************************)
Variants == {"Single", "Multiple"}
FieldPlacement == {"Array", "Arbitrary", "Union"}
\* sized: size_and_align_of_mplace is Some(size) and layout.size = size
\* unsized: Some(size) with a smaller layout.size (a slice or dyn tail)
\* extern: None (an extern type), only layout.size is known
\* error: size_and_align_of_mplace fails
Sizedness == {"sized", "unsized", "extern", "error"}

\* What the two size queries may give for a value of v.size bytes: the kind
\* of answer, and layout.size (read only for an extern type).
SizeDraws(v) ==
    {<<"sized", v.size>>, <<"unsized", 0>>, <<"error", 0>>}
        \cup { <<"extern", n>> : n \in 0..v.size }

Layout(c, f, var, fl, nf, sz) ==
    [is_unsafe_cell |-> c, freeze |-> f, variants |-> var, fields |-> fl,
     nfields |-> nf, sized |-> sz[1], lsize |-> sz[2]]

LayoutsOf(v) ==
    \* UnsafeCell<T> is a single-variant struct and is not Freeze
    { Layout(TRUE, FALSE, "Single", "Arbitrary", 1, sz) : sz \in SizeDraws(v) }
    \* a Freeze type is not looked into: its size is never asked for; only
    \* primitives have the field-less pseudo-union placement, and they are Freeze
    \cup { Layout(FALSE, TRUE, p[1], p[2], p[3], <<"sized", v.size>>) :
              p \in { q \in Variants \X FieldPlacement \X (0..1) :
                          q[2] # "Union" => q[3] = 1 } }
    \* enums and unions are sized
    \cup { Layout(FALSE, FALSE, "Multiple", fl, 1, <<"sized", v.size>>) :
              fl \in FieldPlacement }
    \cup { Layout(FALSE, FALSE, "Single", "Union", 1, <<"sized", v.size>>) }
    \* structs and arrays; the size of a field that is walked into is not asked for
    \cup { Layout(FALSE, FALSE, "Single", p[1], 1, p[2]) :
              p \in {"Array", "Arbitrary"}
                      \X (IF v.depth > 0 THEN {<<"sized", v.size>>} ELSE SizeDraws(v)) }

\* Whether two extents share no byte.
Disjoint(a, b) == a.ptr + a.size <= b.ptr \/ b.ptr + b.size <= a.ptr

\* Fields are direct fields of the visited place (depth 1) or lie deeper (2).
FieldDepth(v) == IF v.depth = 0 THEN 1 ELSE 2

\* The fields of a struct at v, in declaration order: disjoint extents inside
\* v, at most `room` of them.
ArbitraryFields(v, room) ==
    LET Sub == [ptr : v.ptr..(v.ptr + v.size), size : 0..v.size, depth : {FieldDepth(v)}]
        In(f) == f.ptr + f.size <= v.ptr + v.size
    IN  UNION { { fs \in [1..n -> Sub] :
                    /\ \A i \in 1..n : In(fs[i])
                    /\ \A i, j \in 1..n : i # j => Disjoint(fs[i], fs[j]) }
                : n \in 0..room }

\* The elements of an array at v, as mplace_array_fields yields them.
ArrayFields(v, room) ==
    { [i \in 1..p[1] |-> [ptr |-> v.ptr + (i - 1) * p[2], size |-> p[2],
                          depth |-> FieldDepth(v)]] :
        p \in { q \in (0..room) \X (0..v.size) : q[1] * q[2] = v.size } }

\* Whether visit_value walks into the fields of a value of layout l.
IsWalked(l) ==
    ~l.is_unsafe_cell /\ ~l.freeze /\ l.variants = "Single" /\ l.fields # "Union"

\* The field iterators walk_value may hand over; it is lazy, so the fields
\* of a value that is not walked are never produced.
FieldsOf(v, l, room) ==
    CASE IsWalked(l) /\ l.fields = "Array" -> ArrayFields(v, room)
      [] IsWalked(l) /\ l.fields = "Arbitrary" -> ArbitraryFields(v, room)
      [] OTHER -> {<<>>}

(***************************************************************************)
(* visit_freeze_sensitive.  A visitor state s is [end_ptr, calls, nbound,  *)
(* res, push, arena]: push holds the fields walk_aggregate goes on to      *)
(* visit, arena the bytes of the allocation, the number of reads the       *)
(* traversal made of them and the call of `action` that returned an error. *)
(* res is "err" when a size computation failed and "action_err" when a     *)
(* call of `action` returned an error.                                     *)
(***************************************************************************)
\* A call action(ptr, size, frozen) of the caller's closure.
Call(p, n, frozen) == [ptr |-> p, size |-> n, frozen |-> frozen]

\* The caller's closure is the environment.  The one of this model marks
\* every byte of the region it is given: 1 for frozen, 2 for not frozen.
Mark(c) == IF c.frozen THEN 1 ELSE 2

RECURSIVE action(_, _)
action(a, cs) ==
    IF cs = <<>> THEN a
    ELSE LET c == Head(cs)
             b == [x \in DOMAIN a.bytes |->
                     IF x >= c.ptr /\ x < c.ptr + c.size THEN Mark(c) ELSE a.bytes[x]]
         IN  action([a EXCEPT !.bytes = b], Tail(cs))

\* unsafe_cell_action with the cursor left at the start of the UnsafeCell
\* (helpers.rs:220 without the size).
unsafe_cell_action_no_advance(s, unsafe_cell_ptr, unsafe_cell_size, fail) ==
    LET frozen_size == unsafe_cell_ptr - s.end_ptr
        frozen_call == IF frozen_size # 0
                       THEN <<Call(s.end_ptr, frozen_size, TRUE)>> ELSE <<>>
        cell_call == IF unsafe_cell_size # 0
                     THEN <<Call(unsafe_cell_ptr, unsafe_cell_size, FALSE)>> ELSE <<>>
        todo == frozen_call \o cell_call
        t == [s EXCEPT !.nbound = @ + 1]
    IN  IF ~(unsafe_cell_ptr >= s.end_ptr)
        THEN [t EXCEPT !.res = "panic"]
        ELSE IF fail \in 1..Len(todo)
        THEN [t EXCEPT !.calls = @ \o SubSeq(todo, 1, fail), !.res = "action_err",
                       !.arena = [action(@, SubSeq(todo, 1, fail - 1))
                                     EXCEPT !.failed = <<todo[fail]>>]]
        ELSE [t EXCEPT !.calls = @ \o todo, !.end_ptr = unsafe_cell_ptr,
                       !.arena = action(@, todo)]

\* unsafe_cell_action that drops the result of `action` (helpers.rs:212-218
\* without the two `?`): after an error it makes the remaining call and
\* moves the cursor as if nothing had happened.
unsafe_cell_action_error_dropped(s, unsafe_cell_ptr, unsafe_cell_size, fail) ==
    LET end_offset == s.end_ptr
        frozen_size == unsafe_cell_ptr - end_offset
        frozen_call == IF frozen_size # 0
                       THEN <<Call(s.end_ptr, frozen_size, TRUE)>> ELSE <<>>
        cell_call == IF unsafe_cell_size # 0
                     THEN <<Call(unsafe_cell_ptr, unsafe_cell_size, FALSE)>> ELSE <<>>
        todo == frozen_call \o cell_call
        t == [s EXCEPT !.nbound = @ + 1]
    IN  IF ~(unsafe_cell_ptr >= end_offset)
        THEN [t EXCEPT !.res = "panic"]
        ELSE IF fail \in 1..Len(todo)
        THEN [t EXCEPT !.calls = @ \o todo,
                       !.end_ptr = unsafe_cell_ptr + unsafe_cell_size,
                       !.arena = [action(@, todo) EXCEPT !.failed = <<todo[fail]>>]]
        ELSE [t EXCEPT !.calls = @ \o todo,
                       !.end_ptr = unsafe_cell_ptr + unsafe_cell_size,
                       !.arena = action(@, todo)]

\* helpers.rs:201-223.  `fail` is the call of `action`, counted within this
\* run of the closure, that returns an error (0: none does).
unsafe_cell_action(s, unsafe_cell_ptr, unsafe_cell_size, fail) ==
    LET end_offset == s.end_ptr
        frozen_size == unsafe_cell_ptr - end_offset
        frozen_call == IF frozen_size # 0
                       THEN <<Call(s.end_ptr, frozen_size, TRUE)>> ELSE <<>>
        cell_call == IF unsafe_cell_size # 0
                     THEN <<Call(unsafe_cell_ptr, unsafe_cell_size, FALSE)>> ELSE <<>>
        todo == frozen_call \o cell_call
        t == [s EXCEPT !.nbound = @ + 1]
    IN  IF ~(unsafe_cell_ptr >= end_offset)
        THEN [t EXCEPT !.res = "panic"]
        ELSE IF fail \in 1..Len(todo)
        THEN [t EXCEPT !.calls = @ \o SubSeq(todo, 1, fail), !.res = "action_err",
                       !.arena = [action(@, SubSeq(todo, 1, fail - 1))
                                     EXCEPT !.failed = <<todo[fail]>>]]
        ELSE [t EXCEPT !.calls = @ \o todo,
                       !.end_ptr = unsafe_cell_ptr + unsafe_cell_size,
                       !.arena = action(@, todo)]

\* size_and_align_of_mplace(place) followed by unwrap_or_else(layout.size):
\* -1 stands for the error result.
SizeErr == -1

\* size_of_mplace without the unwrap_or_else of helpers.rs:235: the extent
\* of the place is used when the size is unknown.
size_of_mplace_no_fallback(v, l) ==
    CASE l.sized = "error" -> SizeErr
      [] OTHER -> v.size

size_of_mplace(v, l) ==
    CASE l.sized = "error" -> SizeErr
      [] l.sized = "extern" -> l.lsize
      [] OTHER -> v.size

\* The visitor's closure without the test for an empty UnsafeCell
\* (helpers.rs:237).
visitor_unsafe_cell_action_no_zero_test(s, v, l, fail) ==
    LET unsafe_cell_size == size_of_mplace(v, l)
    IN  IF unsafe_cell_size = SizeErr THEN [s EXCEPT !.res = "err"]
        ELSE unsafe_cell_action(s, v.ptr, unsafe_cell_size, fail)

\* helpers.rs:228-242, the closure the visitor owns.
visitor_unsafe_cell_action(s, v, l, fail) ==
    LET unsafe_cell_size == size_of_mplace(v, l)
    IN  IF unsafe_cell_size = SizeErr THEN [s EXCEPT !.res = "err"]
        ELSE IF unsafe_cell_size # 0
        THEN unsafe_cell_action(s, v.ptr, unsafe_cell_size, fail)
        ELSE s

\* Insertion of x into a sequence sorted by ptr, after the elements that
\* do not come later: sort_by_key is a stable sort.
RECURSIVE InsertByOffset(_, _)
InsertByOffset(sorted, x) ==
    IF sorted = <<>> THEN <<x>>
    ELSE IF Head(sorted).ptr <= x.ptr
    THEN <<Head(sorted)>> \o InsertByOffset(Tail(sorted), x)
    ELSE <<x>> \o sorted

RECURSIVE sort_by_offset(_)
sort_by_offset(places) ==
    IF places = <<>> THEN <<>>
    ELSE InsertByOffset(sort_by_offset(SubSeq(places, 1, Len(places) - 1)),
                        places[Len(places)])

\* visit_aggregate without the sort_by_key of helpers.rs:329: the fields are
\* handed over in declaration order.
visit_aggregate_unsorted(s, l, fields) ==
    CASE l.fields = "Array" -> [s EXCEPT !.push = fields]
      [] l.fields = "Arbitrary" -> [s EXCEPT !.push = fields]
      [] OTHER -> [s EXCEPT !.res = "panic"]

\* helpers.rs:313-336.
visit_aggregate(s, l, fields) ==
    CASE l.fields = "Array" -> [s EXCEPT !.push = fields]
      [] l.fields = "Arbitrary" -> [s EXCEPT !.push = sort_by_offset(fields)]
      [] OTHER -> [s EXCEPT !.res = "panic"]

\* visit_union that reports nothing whatever the type (helpers.rs:343-346
\* without the else branch).
visit_union_always_frozen(s, v, l, fail) ==
    IF ~(l.nfields > 0) THEN [s EXCEPT !.res = "panic"]
    ELSE s

\* helpers.rs:339-347.
visit_union(s, v, l, fail) ==
    IF ~(l.nfields > 0) THEN [s EXCEPT !.res = "panic"]
    ELSE IF l.freeze THEN s
    ELSE visitor_unsafe_cell_action(s, v, l, fail)

\* ValueVisitor::walk_value of the interpreter: a union goes to visit_union,
\* any other value to visit_aggregate with its fields.
walk_value(s, v, l, fields, fail) ==
    IF l.fields = "Union" THEN visit_union(s, v, l, fail)
    ELSE visit_aggregate(s, l, fields)

\* visit_value without the UnsafeCell hook (helpers.rs:282-284): an
\* UnsafeCell is walked like any other struct.
visit_value_no_hook(s, v, l, fields, fail) ==
    IF l.freeze THEN s
    ELSE IF l.variants = "Multiple" THEN visitor_unsafe_cell_action(s, v, l, fail)
    ELSE walk_value(s, v, l, fields, fail)

\* visit_value without the Freeze shortcut (helpers.rs:285-287).
visit_value_no_freeze(s, v, l, fields, fail) ==
    IF l.is_unsafe_cell THEN visitor_unsafe_cell_action(s, v, l, fail)
    ELSE IF l.variants = "Multiple" THEN visitor_unsafe_cell_action(s, v, l, fail)
    ELSE walk_value(s, v, l, fields, fail)

\* visit_value with the test for several variants (helpers.rs:291-301) made
\* before the Freeze test.
visit_value_variants_first(s, v, l, fields, fail) ==
    IF l.is_unsafe_cell THEN visitor_unsafe_cell_action(s, v, l, fail)
    ELSE IF l.variants = "Multiple" THEN visitor_unsafe_cell_action(s, v, l, fail)
    ELSE IF l.freeze THEN s
    ELSE walk_value(s, v, l, fields, fail)

\* visit_value that reads the discriminant of a value with several variants
\* before reporting it (helpers.rs:291-301 with a read of the variant).
visit_value_reads_discriminant(s, v, l, fields, fail) ==
    IF l.is_unsafe_cell THEN visitor_unsafe_cell_action(s, v, l, fail)
    ELSE IF l.freeze THEN s
    ELSE IF l.variants = "Multiple"
    THEN visitor_unsafe_cell_action([s EXCEPT !.arena.reads = @ + 1], v, l, fail)
    ELSE walk_value(s, v, l, fields, fail)

\* helpers.rs:275-310.
visit_value(s, v, l, fields, fail) ==
    IF l.is_unsafe_cell THEN visitor_unsafe_cell_action(s, v, l, fail)
    ELSE IF l.freeze THEN s
    ELSE IF l.variants = "Multiple" THEN visitor_unsafe_cell_action(s, v, l, fail)
    ELSE walk_value(s, v, l, fields, fail)

\* The visitor state held in the variables.
VisitorState ==
    [end_ptr |-> end_ptr, calls |-> calls, nbound |-> nbound, res |-> res, push |-> <<>>,
     arena |-> arena]

\* The allocation before the visit: no byte marked, no read made, no call
\* of action failed.
NoArena == [bytes |-> [x \in 0..(MaxStart + MaxSize) |-> 0], reads |-> 0, failed |-> <<>>]

NoLayout ==
    [is_unsafe_cell |-> FALSE, freeze |-> FALSE, variants |-> "Single",
     fields |-> "Arbitrary", nfields |-> 1, sized |-> "sized", lsize |-> 0, seen |-> FALSE]

Seen(l) ==
    [is_unsafe_cell |-> l.is_unsafe_cell, freeze |-> l.freeze, variants |-> l.variants,
     fields |-> l.fields, nfields |-> l.nfields, sized |-> l.sized, lsize |-> l.lsize,
     seen |-> TRUE]

\* The history variable kids: how many direct fields were a sized UnsafeCell,
\* the last of them, and whether a direct field was neither that nor Freeze;
\* whether one was an UnsafeCell of unknown size (an extern type), and the
\* last of them with its layout.size; whether the fields were declared out of
\* offset order.
NoKids == [ncells |-> 0, ptr |-> 0, size |-> 0, other |-> FALSE,
           extern |-> FALSE, eptr |-> 0, lsize |-> 0, reordered |-> FALSE]

Kid(k, v, l) ==
    IF l.is_unsafe_cell /\ l.sized = "sized"
    THEN [k EXCEPT !.ncells = @ + 1, !.ptr = v.ptr, !.size = v.size]
    ELSE IF l.freeze THEN k
    ELSE IF l.is_unsafe_cell /\ l.sized = "extern"
    THEN [k EXCEPT !.other = TRUE, !.extern = TRUE, !.eptr = v.ptr, !.lsize = l.lsize]
    ELSE [k EXCEPT !.other = TRUE]

Declared(k, fields) == [k EXCEPT !.reordered = (sort_by_offset(fields) # fields)]

(***************************************************************************)
(* OS strings.  A host OsString is a sequence of units of the host's       *)
(* string type: bytes on a unix host (any bytes), 16-bit units on a        *)
(* windows host (any units, lone surrogates included).  Guest memory holds *)
(* bytes; Uninit marks a byte that was never written.                      *)
(***************************************************************************)
Uninit == -1
Junk == 170
MemSize == MaxPtr + 2 * (MaxLen + 2)
Addr == 0..(MemSize - 1)

Failed == [ok |-> FALSE, val |-> <<>>]
Ok(v) == [ok |-> TRUE, val |-> v]

\* std::str::from_utf8: the code points of a well-formed UTF-8 byte string.
RECURSIVE utf8_decode(_)
utf8_decode(b) ==
    IF b = <<>> THEN Ok(<<>>)
    ELSE LET b1 == b[1]
             n == IF b1 < 128 THEN 1
                  ELSE IF b1 \in 194..223 THEN 2
                  ELSE IF b1 \in 224..239 THEN 3
                  ELSE IF b1 \in 240..244 THEN 4 ELSE 0
         IN  IF n = 0 \/ Len(b) < n THEN Failed
             ELSE IF \E i \in 2..n : b[i] \notin 128..191 THEN Failed
             ELSE LET cp == CASE n = 1 -> b1
                              [] n = 2 -> (b1 - 192) * 64 + (b[2] - 128)
                              [] n = 3 -> (b1 - 224) * 4096 + (b[2] - 128) * 64
                                            + (b[3] - 128)
                              [] OTHER -> (b1 - 240) * 262144 + (b[2] - 128) * 4096
                                            + (b[3] - 128) * 64 + (b[4] - 128)
                      bad == \/ n = 3 /\ (cp < 2048 \/ cp \in 55296..57343)
                             \/ n = 4 /\ (cp < 65536 \/ cp > 1114111)
                      rest == utf8_decode(SubSeq(b, n + 1, Len(b)))
                  IN  IF bad \/ ~rest.ok THEN Failed ELSE Ok(<<cp>> \o rest.val)

\* str::as_bytes: the UTF-8 encoding of a sequence of code points.
RECURSIVE utf8_encode(_)
utf8_encode(cps) ==
    IF cps = <<>> THEN <<>>
    ELSE LET c == cps[1]
             enc == IF c < 128 THEN <<c>>
                    ELSE IF c < 2048 THEN <<192 + (c \div 64), 128 + (c % 64)>>
                    ELSE IF c < 65536
                    THEN <<224 + (c \div 4096), 128 + ((c \div 64) % 64), 128 + (c % 64)>>
                    ELSE <<240 + (c \div 262144), 128 + ((c \div 4096) % 64),
                           128 + ((c \div 64) % 64), 128 + (c % 64)>>
         IN  enc \o utf8_encode(Tail(cps))

\* String::from_utf16: the code points of well-formed UTF-16, failing on an
\* unpaired surrogate.
RECURSIVE utf16_decode(_)
utf16_decode(u) ==
    IF u = <<>> THEN Ok(<<>>)
    ELSE LET u1 == u[1] IN
         IF u1 \notin 55296..57343
         THEN LET rest == utf16_decode(Tail(u))
              IN  IF rest.ok THEN Ok(<<u1>> \o rest.val) ELSE Failed
         ELSE IF u1 <= 56319 /\ Len(u) >= 2 /\ u[2] \in 56320..57343
         THEN LET rest == utf16_decode(SubSeq(u, 3, Len(u)))
              IN  IF rest.ok
                  THEN Ok(<<65536 + (u1 - 55296) * 1024 + (u[2] - 56320)>> \o rest.val)
                  ELSE Failed
         ELSE Failed

\* str::encode_utf16.
RECURSIVE utf16_encode(_)
utf16_encode(cps) ==
    IF cps = <<>> THEN <<>>
    ELSE LET c == cps[1]
             enc == IF c < 65536 THEN <<c>>
                    ELSE <<55296 + ((c - 65536) \div 1024), 56320 + ((c - 65536) % 1024)>>
         IN  enc \o utf16_encode(Tail(cps))

\* OsStr::to_str as the code points of the string, per host: on unix the
\* bytes must be UTF-8, on windows the units must pair up.
to_str(h, s) == IF h = "unix" THEN utf8_decode(s) ELSE utf16_decode(s)

\* OsStr::new(&str) / String into OsString, per host.
from_str(h, cps) == IF h = "unix" THEN utf8_encode(cps) ELSE utf16_encode(cps)

\* The number of bytes of the WTF-8 form of 16-bit units: a surrogate pair
\* takes four bytes, a lone surrogate three.
RECURSIVE wtf8_len(_)
wtf8_len(u) ==
    IF u = <<>> THEN 0
    ELSE LET u1 == u[1] IN
         IF u1 \in 55296..56319 /\ Len(u) >= 2 /\ u[2] \in 56320..57343
         THEN 4 + wtf8_len(SubSeq(u, 3, Len(u)))
         ELSE (IF u1 < 128 THEN 1 ELSE IF u1 < 2048 THEN 2 ELSE 3) + wtf8_len(Tail(u))

\* OsStr::len, the length of the host's own representation in bytes.
os_str_len(h, s) == IF h = "unix" THEN Len(s) ELSE wtf8_len(s)

\* bytes_to_os_str returning the string decoded so far for ill-formed bytes.
bytes_to_os_str_lossy(h, bytes) ==
    IF h = "unix" THEN Ok(bytes)
    ELSE LET s == utf8_decode(bytes)
         IN  IF s.ok THEN Ok(from_str(h, s.val)) ELSE Ok(<<>>)

\* helpers.rs:485-494.
bytes_to_os_str(h, bytes) ==
    IF h = "unix" THEN Ok(bytes)
    ELSE LET s == utf8_decode(bytes)
         IN  IF s.ok THEN Ok(from_str(h, s.val)) ELSE Failed

\* helpers.rs:508-517.
u16vec_to_osstring(h, u16_vec) ==
    IF h = "windows" THEN Ok(u16_vec)
    ELSE LET s == utf16_decode(u16_vec)
         IN  IF s.ok THEN Ok(from_str(h, s.val)) ELSE Failed

\* helpers.rs:534-547.
os_str_to_bytes(h, s) ==
    IF h = "unix" THEN Ok(s)
    ELSE LET t == to_str(h, s)
         IN  IF t.ok THEN Ok(utf8_encode(t.val)) ELSE Failed

\* helpers.rs:573-586.
os_str_to_u16vec(h, s) ==
    IF h = "windows" THEN Ok(s)
    ELSE LET t == to_str(h, s)
         IN  IF t.ok THEN Ok(utf16_encode(t.val)) ELSE Failed

\* Memory::read_c_str: the bytes from p up to the first zero byte; an error
\* when the allocation ends, or an uninitialized byte comes, before one.
RECURSIVE read_c_str(_, _)
read_c_str(m, p) ==
    IF p \notin DOMAIN m \/ m[p] = Uninit THEN Failed
    ELSE IF m[p] = 0 THEN Ok(<<>>)
    ELSE LET rest == read_c_str(m, p + 1)
         IN  IF rest.ok THEN Ok(<<m[p]>> \o rest.val) ELSE Failed

\* Memory::read_wide_str: the little-endian 16-bit units from p up to the
\* first 0x0000 unit.
RECURSIVE read_wide_str(_, _)
read_wide_str(m, p) ==
    IF p + 1 \notin DOMAIN m \/ m[p] = Uninit \/ m[p + 1] = Uninit THEN Failed
    ELSE LET unit == m[p] + 256 * m[p + 1] IN
         IF unit = 0 THEN Ok(<<>>)
         ELSE LET rest == read_wide_str(m, p + 2)
              IN  IF rest.ok THEN Ok(<<unit>> \o rest.val) ELSE Failed

\* Memory::write_bytes: the bytes stored from p on.
write_bytes(m, p, bytes) ==
    [a \in DOMAIN m |-> IF a \in p..(p + Len(bytes) - 1) THEN bytes[a - p + 1] ELSE m[a]]

\* mplace_field(mplace, idx) and write_scalar of a 2-byte scalar: element idx
\* of the u16 array at p, little-endian.
write_u16(m, p, idx, c) ==
    [a \in DOMAIN m |-> IF a = p + 2 * idx THEN c % 256
                        ELSE IF a = p + 2 * idx + 1 THEN c \div 256 ELSE m[a]]

\* The result of a write operation.
WriteResult(r, fits, len, m) == [res |-> r, fits |-> fits, len |-> len, mem |-> m]

\* write_os_str_to_c_str storing the bytes without the terminator.
write_os_str_to_c_str_no_terminator(h, m, s, scalar, sz) ==
    LET bytes == os_str_to_bytes(h, s)
        string_length == Len(bytes.val)
    IN  IF ~bytes.ok THEN WriteResult("err", FALSE, 0, m)
        ELSE IF sz <= string_length THEN WriteResult("ok", FALSE, string_length, m)
        ELSE WriteResult("ok", TRUE, string_length, write_bytes(m, scalar, bytes.val))

\* write_os_str_to_c_str accepting a capacity equal to the string's length.
write_os_str_to_c_str_strict_less(h, m, s, scalar, sz) ==
    LET bytes == os_str_to_bytes(h, s)
        string_length == Len(bytes.val)
    IN  IF ~bytes.ok THEN WriteResult("err", FALSE, 0, m)
        ELSE IF sz < string_length THEN WriteResult("ok", FALSE, string_length, m)
        ELSE WriteResult("ok", TRUE, string_length,
                         write_bytes(m, scalar, bytes.val \o <<0>>))

\* write_os_str_to_c_str returning a length that counts the terminator.
write_os_str_to_c_str_len_with_terminator(h, m, s, scalar, sz) ==
    LET bytes == os_str_to_bytes(h, s)
        string_length == Len(bytes.val) + 1
    IN  IF ~bytes.ok THEN WriteResult("err", FALSE, 0, m)
        ELSE IF sz < string_length THEN WriteResult("ok", FALSE, string_length, m)
        ELSE WriteResult("ok", TRUE, string_length,
                         write_bytes(m, scalar, bytes.val \o <<0>>))

\* helpers.rs:528-560.
write_os_str_to_c_str(h, m, s, scalar, sz) ==
    LET bytes == os_str_to_bytes(h, s)
        string_length == Len(bytes.val)
    IN  IF ~bytes.ok THEN WriteResult("err", FALSE, 0, m)
        ELSE IF sz <= string_length THEN WriteResult("ok", FALSE, string_length, m)
        ELSE WriteResult("ok", TRUE, string_length,
                         write_bytes(m, scalar, bytes.val \o <<0>>))

\* helpers.rs:600-603: the loop storing the units and the terminator.
RECURSIVE store_units(_, _, _, _)
store_units(m, p, units, idx) ==
    IF idx >= Len(units) THEN m
    ELSE store_units(write_u16(m, p, idx, units[idx + 1]), p, units, idx + 1)

\* write_os_str_to_wide_str measuring the string in bytes of the host string
\* instead of 16-bit units.
write_os_str_to_wide_str_byte_length(h, m, s, mplace, sz) ==
    LET u16_vec == os_str_to_u16vec(h, s)
        string_length == os_str_len(h, s)
    IN  IF ~u16_vec.ok THEN WriteResult("err", FALSE, 0, m)
        ELSE IF sz <= string_length THEN WriteResult("ok", FALSE, string_length, m)
        ELSE WriteResult("ok", TRUE, string_length,
                         store_units(m, mplace, u16_vec.val \o <<0>>, 0))

\* helpers.rs:567-605.
write_os_str_to_wide_str(h, m, s, mplace, sz) ==
    LET u16_vec == os_str_to_u16vec(h, s)
        string_length == Len(u16_vec.val)
    IN  IF ~u16_vec.ok THEN WriteResult("err", FALSE, 0, m)
        ELSE IF sz <= string_length THEN WriteResult("ok", FALSE, string_length, m)
        ELSE WriteResult("ok", TRUE, string_length,
                         store_units(m, mplace, u16_vec.val \o <<0>>, 0))

\* helpers.rs:480-499.
read_os_str_from_c_str(h, m, scalar) ==
    LET bytes == read_c_str(m, scalar)
    IN  IF bytes.ok THEN bytes_to_os_str(h, bytes.val) ELSE Failed

\* helpers.rs:503-521.
read_os_str_from_wide_str(h, m, scalar) ==
    LET u16_vec == read_wide_str(m, scalar)
    IN  IF u16_vec.ok THEN u16vec_to_osstring(h, u16_vec.val) ELSE Failed

\* The separators: '/' and '\'.
Slash == 47
Backslash == 92

\* iter().map(|c| if c == from { to } else { c }).collect().
map_unit(s, from, to) == [i \in 1..Len(s) |-> IF s[i] = from THEN to ELSE s[i]]

\* helpers.rs:661-685: the separator conversion of read_path_from_c_str.
read_path_convert(h, target, s) ==
    IF h = "windows"
    THEN IF target = "windows" THEN s ELSE map_unit(s, Slash, Backslash)
    ELSE IF target = "windows" THEN map_unit(s, Slash, Backslash) ELSE s

\* helpers.rs:653-686.
read_path_from_c_str(h, target, m, scalar) ==
    LET s == read_os_str_from_c_str(h, m, scalar)
    IN  IF s.ok THEN Ok(read_path_convert(h, target, s.val)) ELSE Failed

\* write_path_to_c_str converting '\' to '/' on a unix host.
write_path_convert_unix_reversed(h, target, path) ==
    IF h = "windows"
    THEN IF target = "windows" THEN path ELSE map_unit(path, Backslash, Slash)
    ELSE IF target = "windows" THEN map_unit(path, Backslash, Slash) ELSE path

\* write_path_to_c_str converting '/' to '\' on a windows host.
write_path_convert_windows_reversed(h, target, path) ==
    IF h = "windows"
    THEN IF target = "windows" THEN path ELSE map_unit(path, Slash, Backslash)
    ELSE IF target = "windows" THEN map_unit(path, Slash, Backslash) ELSE path

\* helpers.rs:697-723: the separator conversion of write_path_to_c_str.
write_path_convert(h, target, path) ==
    IF h = "windows"
    THEN IF target = "windows" THEN path ELSE map_unit(path, Backslash, Slash)
    ELSE IF target = "windows" THEN map_unit(path, Slash, Backslash) ELSE path

\* helpers.rs:689-726.
write_path_to_c_str(h, target, m, path, scalar, sz) ==
    write_os_str_to_c_str(h, m, write_path_convert(h, target, path), scalar, sz)

\* A fresh allocation of n bytes.
allocate(n) == [a \in 0..(n - 1) |-> Uninit]

\* What an alloc_os_str_as_* call did: how it ended ("ok", "err" for an error
\* result, "panic"), the encoding, the units allocated, the units the string
\* took, and the allocation's bytes.
AllocResult(r, enc, units, len, m) ==
    [res |-> r, enc |-> enc, units |-> units, len |-> len, mem |-> m]

NoAlloc == AllocResult("none", "none", 0, 0, <<>>)

\* alloc_os_str_as_c_str making space for two terminators.
alloc_os_str_as_c_str_two_more(h, s) ==
    LET sz == os_str_len(h, s) + 2
        arg_place == allocate(sz)
        w == write_os_str_to_c_str(h, arg_place, s, 0, sz)
    IN  IF w.res = "ok" /\ w.fits THEN AllocResult("ok", "narrow", sz, w.len, w.mem)
        ELSE AllocResult("panic", "narrow", sz, w.len, w.mem)

\* helpers.rs:623-635.
alloc_os_str_as_c_str(h, s) ==
    LET sz == os_str_len(h, s) + 1
        arg_place == allocate(sz)
        w == write_os_str_to_c_str(h, arg_place, s, 0, sz)
    IN  IF w.res = "ok" /\ w.fits THEN AllocResult("ok", "narrow", sz, w.len, w.mem)
        ELSE AllocResult("panic", "narrow", sz, w.len, w.mem)

\* alloc_os_str_as_wide_str making no space for the terminator.
alloc_os_str_as_wide_str_no_terminator(h, s) ==
    LET sz == os_str_len(h, s)
        arg_place == allocate(2 * sz)
        w == write_os_str_to_wide_str(h, arg_place, s, 0, sz)
    IN  IF w.res = "ok" /\ w.fits THEN AllocResult("ok", "wide", sz, w.len, w.mem)
        ELSE AllocResult("panic", "wide", sz, w.len, w.mem)

\* helpers.rs:638-650.
alloc_os_str_as_wide_str(h, s) ==
    LET sz == os_str_len(h, s) + 1
        arg_place == allocate(2 * sz)
        w == write_os_str_to_wide_str(h, arg_place, s, 0, sz)
    IN  IF w.res = "ok" /\ w.fits THEN AllocResult("ok", "wide", sz, w.len, w.mem)
        ELSE AllocResult("panic", "wide", sz, w.len, w.mem)

\* helpers.rs:609-620.
alloc_os_str_as_target_str(h, target, s) ==
    CASE target \in {"linux", "macos"} -> alloc_os_str_as_c_str(h, s)
      [] target = "windows" -> alloc_os_str_as_wide_str(h, s)
      [] OTHER -> AllocResult("err", "none", 0, 0, <<>>)

\* The result of a read: the operation, how it ended, the encoding it read
\* and the host string it returned.
ReadResult(op, r, enc) == [op |-> op, ok |-> r.ok, enc |-> enc, str |-> r.val]

NoRead == [op |-> "none", ok |-> FALSE, enc |-> "none", str |-> <<>>]

\* read_os_str_from_target_str choosing the encoding from the host.
read_os_str_from_target_str_by_host(h, target, m, scalar) ==
    CASE h = "unix" ->
            ReadResult("target_str", read_os_str_from_c_str(h, m, scalar), "narrow")
      [] h = "windows" ->
            ReadResult("target_str", read_os_str_from_wide_str(h, m, scalar), "wide")
      [] OTHER -> ReadResult("target_str", Failed, "none")

\* helpers.rs:469-476.
read_os_str_from_target_str(h, target, m, scalar) ==
    CASE target \in {"linux", "macos"} ->
            ReadResult("target_str", read_os_str_from_c_str(h, m, scalar), "narrow")
      [] target = "windows" ->
            ReadResult("target_str", read_os_str_from_wide_str(h, m, scalar), "wide")
      [] OTHER -> ReadResult("target_str", Failed, "none")

\* The record of a write: the operation, the host string it was given, and
\* what it returned.
Written(op, s, w) == [op |-> op, str |-> s, res |-> w.res, fits |-> w.fits, len |-> w.len]

NoWrite == [op |-> "none", str |-> <<>>, res |-> "none", fits |-> FALSE, len |-> 0]

(***************************************************************************)
(* call_function: the stack of frames and the callee's locals.             *)
(***************************************************************************)
\* A callee is known by the number of its declared parameters.
Instances == 0..MaxArgs

\* mir.arg_count of the callee's body.
arg_count(f) == f

\* body.args_iter(): the locals 1..=arg_count, local 0 being the return place.
args_iter(f) == [i \in 1..arg_count(f) |-> i]

\* The locals of the callee's body: the return place, the parameters and one
\* temporary.
LocalsOf(f) == 0..(arg_count(f) + 1)

\* The immediates passed as arguments.
Immediates == {10, 20}

\* The destination and the cleanup policy a call is given.
Returns == {[dest |-> "none", stack_pop |-> "None"], [dest |-> "dest", stack_pop |-> "Goto"]}

\* A frame as push_stack_frame makes it: no local written yet.
Frame(f, dest, stack_pop) ==
    [instance |-> f, return_place |-> dest, return_to_block |-> stack_pop,
     locals |-> [l \in LocalsOf(f) |-> Uninit]]

\* InterpCx::push_stack_frame.
push_stack_frame(stk, f, dest, stack_pop) == Append(stk, Frame(f, dest, stack_pop))

\* callee_args.next() gives a local: fewer than arg_count were taken.
callee_args_next(f, taken) ==
    IF taken < arg_count(f) THEN Ok(args_iter(f)[taken + 1]) ELSE Failed

\* this.local_place(local) on this.frame(), the innermost frame, followed by
\* write_immediate(arg, callee_arg).
write_immediate_from_local_0(stk, local, arg) ==
    [stk EXCEPT ![Len(stk)].locals[local - 1] = arg]

write_immediate(stk, local, arg) ==
    [stk EXCEPT ![Len(stk)].locals[local] = arg]

\* helpers.rs:172: callee_args.next().expect_none(..) after the loop.
expect_none_skipped(f, taken) == "ok"

expect_none(f, taken) == IF callee_args_next(f, taken).ok THEN "panic" ELSE "ok"

\* The call in progress: where it stands ("idle", "args" while the arguments
\* are passed, "done"), what it was given, the arguments passed so far, how
\* it ended ("ok", "err", "panic"), which step returned the error, the stack
\* before the call, and the number of calls so far.
CallState(pc, f, args, ret, next, r, err, base, n) ==
    [pc |-> pc, f |-> f, args |-> args, dest |-> ret.dest, stack_pop |-> ret.stack_pop,
     next |-> next, res |-> r, err |-> err, base |-> base, n |-> n]

NoCall == CallState("idle", 0, <<>>, [dest |-> "none", stack_pop |-> "None"],
                    0, "none", "none", <<>>, 0)

(***************************************************************************)
(* gen_random: the seeded generator, the host's entropy source and guest   *)
(* memory.                                                                 *)
(***************************************************************************)
\* The generator: its states, its step and the byte a state gives.
RngMod == 16
rng_step(s) == (5 * s + 3) % RngMod
rng_byte(s) == (37 * s + 11) % 256

\* RngCore::fill_bytes: n bytes and the state after them.
RECURSIVE fill_bytes(_, _)
fill_bytes(s, n) ==
    IF n = 0 THEN [data |-> <<>>, rng |-> s]
    ELSE LET rest == fill_bytes(rng_step(s), n - 1)
         IN  [data |-> <<rng_byte(s)>> \o rest.data, rng |-> rest.rng]

\* The host's entropy source: a state the interpreter does not know, and the
\* number of times it was asked.
HostEntropy(state, draws) == [state |-> state, draws |-> draws]

\* getrandom::getrandom: n bytes of the host, or a failure.
RECURSIVE host_bytes(_, _)
host_bytes(state, n) ==
    IF n = 0 THEN <<>> ELSE <<(101 * state + 7 * n) % 256>> \o host_bytes(state + 3, n - 1)

getrandom(h, n, fails) ==
    [ok |-> ~fails,
     data |-> IF fails THEN <<>> ELSE host_bytes(h.state, n),
     host |-> HostEntropy((h.state + 3 * n + 1) % RngMod, h.draws + 1)]

\* Scalars that are no address of the allocation: null, and one past its end.
NullPtr == -1
Dangling == MemSize

\* Memory::write_bytes with its bounds check.
write_bytes_checked(m, p, data) ==
    IF \A a \in p..(p + Len(data) - 1) : a \in DOMAIN m
    THEN [ok |-> TRUE, mem |-> write_bytes(m, p, data)]
    ELSE [ok |-> FALSE, mem |-> m]

\* What gen_random returned and left behind.
GenResult(r, m, s, h) == [res |-> r, mem |-> m, rng |-> s, host |-> h]

\* gen_random carrying on to the generator for len == 0.
gen_random_no_early_return(comm, m, s, h, p, len, host_fails) ==
    IF comm
    THEN LET data == getrandom(h, len, host_fails) IN
         IF ~data.ok THEN GenResult("unsup", m, s, data.host)
         ELSE LET w == write_bytes_checked(m, p, data.data)
              IN  GenResult(IF w.ok THEN "ok" ELSE "err", w.mem, s, data.host)
    ELSE LET data == fill_bytes(s, len)
             w == write_bytes_checked(m, p, data.data)
         IN  GenResult(IF w.ok THEN "ok" ELSE "err", w.mem, data.rng, h)

\* gen_random taking the host's bytes whatever the communicate flag.
gen_random_always_host(comm, m, s, h, p, len, host_fails) ==
    IF len = 0 THEN GenResult("ok", m, s, h)
    ELSE LET data == getrandom(h, len, FALSE)
             w == write_bytes_checked(m, p, data.data)
         IN  GenResult(IF w.ok THEN "ok" ELSE "err", w.mem, s, data.host)

\* gen_random writing the bytes before it looks at the host's result.
gen_random_write_first(comm, m, s, h, p, len, host_fails) ==
    IF len = 0 THEN GenResult("ok", m, s, h)
    ELSE IF comm
    THEN LET data == getrandom(h, len, host_fails)
             w == write_bytes_checked(m, p, [i \in 1..len |-> 0])
         IN  IF ~data.ok THEN GenResult("unsup", w.mem, s, data.host)
             ELSE LET w2 == write_bytes_checked(m, p, data.data)
                  IN  GenResult(IF w2.ok THEN "ok" ELSE "err", w2.mem, s, data.host)
    ELSE LET data == fill_bytes(s, len)
             w == write_bytes_checked(m, p, data.data)
         IN  GenResult(IF w.ok THEN "ok" ELSE "err", w.mem, data.rng, h)

\* helpers.rs:119-143.
gen_random(comm, m, s, h, p, len, host_fails) ==
    IF len = 0 THEN GenResult("ok", m, s, h)
    ELSE IF comm
    THEN LET data == getrandom(h, len, host_fails) IN
         IF ~data.ok THEN GenResult("unsup", m, s, data.host)
         ELSE LET w == write_bytes_checked(m, p, data.data)
              IN  GenResult(IF w.ok THEN "ok" ELSE "err", w.mem, s, data.host)
    ELSE LET data == fill_bytes(s, len)
             w == write_bytes_checked(m, p, data.data)
         IN  GenResult(IF w.ok THEN "ok" ELSE "err", w.mem, data.rng, h)

\* The record of a gen_random call: the number of calls so far, the len it
\* was given, whether the host's source failed, the result, and the
\* generator and the host's source before the call.
GenCall(n, len, host_fails, r, rng0, host0) ==
    [n |-> n, len |-> len, host_fails |-> host_fails, res |-> r, rng0 |-> rng0, host0 |-> host0]

NoGen == GenCall(0, 0, FALSE, "none", 0, HostEntropy(0, 0))

\* The second execution: its memory, generator, host source and last result.
Twin(m, s, h, r) == [mem |-> m, rng |-> s, host |-> h, res |-> r]

\* The record of a call of one of the error helpers: the helper, its name
\* argument (a libc constant, an io::ErrorKind or a foreign function), its
\* scalar argument, how it returned ("ok", "undef" for an undefined-value
\* error, "unsup" for an unsupported error, "stop" for UnsupportedInIsolation,
\* "err" for another error), the value returned with Ok, and the message.
ErrOp(op, name, scalar, r, val, msg) ==
    [op |-> op, name |-> name, scalar |-> scalar, res |-> r, val |-> val, msg |-> msg]

NoErrOp == ErrOp("none", "none", 0, "none", 0, <<>>)

\* No set_last_error has succeeded yet.
NeverSet == [set |-> FALSE, val |-> 0]

ErrIdle ==
    /\ last_error = 0
    /\ er = NoErrOp
    /\ last_set = NeverSet
    /\ libc_undef = {}

MachineIdle ==
    /\ ErrIdle
    /\ frames = <<>>
    /\ cf = NoCall
    /\ communicate = FALSE
    /\ rng = 0
    /\ hostent = HostEntropy(0, 0)
    /\ gr = NoGen
    /\ twin = Twin(<<>>, 0, HostEntropy(0, 0), "none")

(***************************************************************************)
(* The inputs of the string operations.                                    *)
(***************************************************************************)
Hosts == {"unix", "windows"}
\* target_os: the three the code names, one more Unix-like OS and one OS of
\* neither family.
Targets == {"linux", "macos", "windows", "freebsd", "wasi"}
\* target.options.target_family
target_family(target) ==
    IF target = "windows" THEN "windows"
    ELSE IF target = "wasi" THEN "none" ELSE "unix"

\* Sequences over S of length at most n.
SeqsUpTo(S, n) == UNION { [1..k -> S] : k \in 0..n }

\* Units of host strings: NUL, 'a', and on unix the bytes 0xC3 0xA9 (together
\* the UTF-8 of U+00E9, each alone ill-formed), on windows U+00E9 and the
\* surrogates 0xD800 0xDC00 (together U+10000, each alone unpaired).
StrUnits(h) == IF h = "unix" THEN {0, 97, 195, 169} ELSE {0, 97, 233, 55296, 56320}

\* Units of host paths: the separators, 'a' and U+00E9.
PathUnits(h) == IF h = "unix" THEN {Slash, Backslash, 97, 195, 169}
                ELSE {Slash, Backslash, 97, 233}

\* Bytes the guest stores as a path.
GuestPathBytes == {Slash, Backslash, 97, 195, 169}

\* Capacities: up to one more than the longest encoded string needs.
Sizes == 0..(2 * MaxLen + 1)

JunkMem == [a \in Addr |-> Junk]

\* Guest memory in which the guest stored the NUL-terminated bytes g at p.
GuestMem(p, g) == write_bytes(JunkMem, p, g \o <<0>>)

\* Guest memory in which the guest stored the 0x0000-terminated units u at p.
GuestWideMem(p, u) == store_units(JunkMem, p, u \o <<0>>, 0)

\* Bytes and 16-bit units the guest stores as a string: 'a', the two bytes of
\* U+00E9 in UTF-8, U+00E9 and the two surrogates of U+10000 in UTF-16.
GuestStrBytes == {97, 195, 169}
GuestStrUnits == {97, 233, 55296, 56320}

\* Guest memory holding a narrow or a wide string at p.
GuestStrMems(p) ==
    { GuestMem(p, g) : g \in SeqsUpTo(GuestStrBytes, MaxLen) }
        \cup { GuestWideMem(p, u) : u \in SeqsUpTo(GuestStrUnits, MaxLen) }

\* Targets the path operations are run for: they only ask whether the
\* target is "windows".
PathTargets == {"linux", "windows"}

VisitIdle ==
    /\ place = [ptr |-> 0, size |-> 0]
    /\ root = NoLayout
    /\ stack = <<>>
    /\ end_ptr = 0
    /\ calls = <<>>
    /\ nbound = 0
    /\ kids = NoKids
    /\ arena = NoArena
    /\ nplaces = 0
    /\ res = "idle"

\* The inputs of the string operations: either the host holds a string to
\* write into a buffer, or the guest has stored one to read.
StrInputs ==
    /\ host \in Hosts
    /\ ptr \in 0..MaxPtr
    /\ \/ /\ os_str \in SeqsUpTo(StrUnits(host), MaxLen)
          /\ size \in Sizes
          /\ mem = JunkMem
       \/ /\ os_str = <<>>
          /\ size = 0
          /\ mem \in GuestStrMems(ptr)

\* The narrow and wide string operations.
InitStr ==
    /\ VisitIdle
    /\ MachineIdle
    /\ StrInputs
    /\ target_os = "linux"
    /\ mem0 = mem
    /\ wr = NoWrite
    /\ rd = NoRead
    /\ alloc = NoAlloc
    /\ nwrites = 0

WriteOsStrToCStr ==
    /\ nwrites < MaxWrites
    /\ LET w == write_os_str_to_c_str(host, mem, os_str, ptr, size) IN
       /\ mem' = w.mem
       /\ wr' = Written("c_str", os_str, w)
    /\ mem0' = mem
    /\ rd' = NoRead
    /\ nwrites' = nwrites + 1
    /\ UNCHANGED <<host, target_os, os_str, ptr, size, alloc>>
    /\ UNCHANGED visit_vars
    /\ UNCHANGED machine_vars

WriteOsStrToWideStr ==
    /\ nwrites < MaxWrites
    /\ LET w == write_os_str_to_wide_str(host, mem, os_str, ptr, size) IN
       /\ mem' = w.mem
       /\ wr' = Written("wide_str", os_str, w)
    /\ mem0' = mem
    /\ rd' = NoRead
    /\ nwrites' = nwrites + 1
    /\ UNCHANGED <<host, target_os, os_str, ptr, size, alloc>>
    /\ UNCHANGED visit_vars
    /\ UNCHANGED machine_vars

ReadOsStrFromCStr ==
    /\ rd' = ReadResult("c_str", read_os_str_from_c_str(host, mem, ptr), "narrow")
    /\ UNCHANGED <<host, target_os, mem, os_str, ptr, size, wr, mem0, alloc, nwrites>>
    /\ UNCHANGED visit_vars
    /\ UNCHANGED machine_vars

ReadOsStrFromWideStr ==
    /\ rd' = ReadResult("wide_str", read_os_str_from_wide_str(host, mem, ptr), "wide")
    /\ UNCHANGED <<host, target_os, mem, os_str, ptr, size, wr, mem0, alloc, nwrites>>
    /\ UNCHANGED visit_vars
    /\ UNCHANGED machine_vars

NextStr ==
    \/ WriteOsStrToCStr
    \/ WriteOsStrToWideStr
    \/ ReadOsStrFromCStr
    \/ ReadOsStrFromWideStr

SpecStr == InitStr /\ [][NextStr]_vars

\* The path operations: either the host
\* holds a path to write, or the guest has stored one to read.
InitPath ==
    /\ VisitIdle
    /\ MachineIdle
    /\ host \in Hosts
    /\ target_os \in PathTargets
    /\ ptr \in 0..MaxPtr
    /\ \/ /\ os_str \in SeqsUpTo(PathUnits(host), MaxLen)
          /\ size \in Sizes
          /\ mem = JunkMem
       \/ /\ os_str = <<>>
          /\ size = 0
          /\ mem \in { GuestMem(ptr, g) : g \in SeqsUpTo(GuestPathBytes, MaxLen) }
    /\ mem0 = mem
    /\ wr = NoWrite
    /\ rd = NoRead
    /\ alloc = NoAlloc
    /\ nwrites = 0

ReadPathFromCStr ==
    /\ rd' = ReadResult("path", read_path_from_c_str(host, target_os, mem, ptr), "narrow")
    /\ UNCHANGED <<host, target_os, mem, os_str, ptr, size, wr, mem0, alloc, nwrites>>
    /\ UNCHANGED visit_vars
    /\ UNCHANGED machine_vars

\* write_path_to_c_str of a path the host holds: the argument, or the path
\* the last read_path_from_c_str returned; the capacity is the argument or
\* any other.
WritePathToCStr ==
    /\ nwrites < MaxWrites
    /\ \E path \in {os_str} \cup (IF rd.op = "path" /\ rd.ok THEN {rd.str} ELSE {}) :
       \E sz \in IF path = os_str THEN {size} ELSE Sizes :
          LET w == write_path_to_c_str(host, target_os, mem, path, ptr, sz) IN
          /\ mem' = w.mem
          /\ wr' = Written(IF path = os_str THEN "path" ELSE "path_back", path, w)
          /\ size' = sz
    /\ mem0' = mem
    /\ rd' = rd
    /\ nwrites' = nwrites + 1
    /\ UNCHANGED <<host, target_os, os_str, ptr, alloc>>
    /\ UNCHANGED visit_vars
    /\ UNCHANGED machine_vars

NextPath ==
    \/ ReadPathFromCStr
    \/ WritePathToCStr

SpecPath == InitPath /\ [][NextPath]_vars

\* The operations that dispatch on the guest target.
InitTarget ==
    /\ VisitIdle
    /\ MachineIdle
    /\ StrInputs
    /\ target_os \in Targets
    /\ mem0 = mem
    /\ wr = NoWrite
    /\ rd = NoRead
    /\ alloc = NoAlloc
    /\ nwrites = 0

ReadOsStrFromTargetStr ==
    /\ rd' = read_os_str_from_target_str(host, target_os, mem, ptr)
    /\ UNCHANGED <<host, target_os, mem, os_str, ptr, size, wr, mem0, alloc, nwrites>>
    /\ UNCHANGED visit_vars
    /\ UNCHANGED machine_vars

AllocOsStrAsTargetStr ==
    /\ alloc' = alloc_os_str_as_target_str(host, target_os, os_str)
    /\ UNCHANGED <<host, target_os, mem, os_str, ptr, size, wr, rd, mem0, nwrites>>
    /\ UNCHANGED visit_vars
    /\ UNCHANGED machine_vars

NextTarget ==
    \/ ReadOsStrFromTargetStr
    \/ AllocOsStrAsTargetStr

SpecTarget == InitTarget /\ [][NextTarget]_vars

(***************************************************************************)
(* The traversal of visit_freeze_sensitive, one visit_value call a step.    *)
(***************************************************************************)
StrIdle ==
    /\ host = "unix"
    /\ target_os = "linux"
    /\ mem = <<>>
    /\ os_str = <<>>
    /\ ptr = 0
    /\ size = 0
    /\ wr = NoWrite
    /\ rd = NoRead
    /\ mem0 = <<>>
    /\ alloc = NoAlloc
    /\ nwrites = 0

\* helpers.rs:198 and 244: the visit starts at the place itself.
InitVisit ==
    /\ place \in [ptr : 0..MaxStart, size : 0..MaxSize]
    /\ root = NoLayout
    /\ stack = <<[ptr |-> place.ptr, size |-> place.size, depth |-> 0]>>
    /\ end_ptr = place.ptr
    /\ calls = <<>>
    /\ nbound = 0
    /\ kids = NoKids
    /\ arena = NoArena
    /\ nplaces = 1
    /\ res = "running"
    /\ StrIdle
    /\ MachineIdle

\* One visit_value call of the traversal (helpers.rs:244 and walk_aggregate).
VisitValue ==
    /\ res = "running"
    /\ stack # <<>>
    /\ LET v == Head(stack) IN
       \E l \in LayoutsOf(v) :
       \E fields \in FieldsOf(v, l, MaxPlaces - nplaces) :
       \E fail \in IF IsWalked(l) \/ l.freeze THEN {0} ELSE 0..2 :
          \* the debug assertion of helpers.rs:189-194
          /\ v.depth = 0 => l.sized \in {"sized", "error"}
          /\ LET s == visit_value(VisitorState, v, l, fields, fail) IN
             /\ end_ptr' = s.end_ptr
             /\ calls' = s.calls
             /\ nbound' = s.nbound
             /\ res' = s.res
             /\ arena' = s.arena
             /\ stack' = s.push \o Tail(stack)
          /\ root' = IF v.depth = 0 THEN Seen(l) ELSE root
          /\ kids' = IF v.depth = 1 THEN Kid(kids, v, l)
                    ELSE IF v.depth = 0 THEN Declared(kids, fields) ELSE kids
          /\ nplaces' = nplaces + Len(fields)
    /\ UNCHANGED place
    /\ UNCHANGED str_vars
    /\ UNCHANGED machine_vars

\* helpers.rs:246-250: the zero-sized UnsafeCell pretended at the end.
Flush ==
    /\ res = "running"
    /\ stack = <<>>
    /\ \E fail \in 0..1 :
          LET s == unsafe_cell_action(VisitorState, place.ptr + place.size, 0, fail) IN
          /\ end_ptr' = s.end_ptr
          /\ calls' = s.calls
          /\ nbound' = s.nbound
          /\ res' = IF s.res = "running" THEN "ok" ELSE s.res
          /\ arena' = s.arena
    /\ UNCHANGED <<place, root, stack, kids, nplaces>>
    /\ UNCHANGED str_vars
    /\ UNCHANGED machine_vars

NextVisit == VisitValue \/ Flush

SpecVisit == InitVisit /\ [][NextVisit]_vars

(***************************************************************************)
(* call_function, a step for the frame and a step for each argument.       *)
(***************************************************************************)
RandomIdle ==
    /\ communicate = FALSE
    /\ rng = 0
    /\ hostent = HostEntropy(0, 0)
    /\ gr = NoGen
    /\ twin = Twin(<<>>, 0, HostEntropy(0, 0), "none")

\* The stack before the first call: empty, or the frame of a caller.
InitCall ==
    /\ VisitIdle
    /\ ErrIdle
    /\ StrIdle
    /\ RandomIdle
    /\ frames \in {<<>>, <<Frame(1, "dest", "Goto")>>}
    /\ cf = NoCall

\* helpers.rs:154-162: load the callee's MIR and push its frame.  Either
\* step can return an error; push_stack_frame may have pushed by then.
PushFrame ==
    /\ cf.pc = "idle" \/ (cf.pc = "done" /\ cf.res = "ok")
    /\ cf.n < MaxCalls
    /\ \E f \in Instances, ret \in Returns, args \in SeqsUpTo(Immediates, MaxArgs) :
       \E err \in {"none", "load_mir", "push_stack_frame"} :
          LET pushed == push_stack_frame(frames, f, ret.dest, ret.stack_pop) IN
          /\ frames' \in CASE err = "none" -> {pushed}
                           [] err = "load_mir" -> {frames}
                           [] OTHER -> {frames, pushed}
          /\ cf' = IF err = "none"
                   THEN CallState("args", f, args, ret, 0, "none", "none", frames, cf.n + 1)
                   ELSE CallState("done", f, args, ret, 0, "err", err, frames, cf.n + 1)
    /\ UNCHANGED <<communicate, rng, hostent, gr, twin>>
    /\ UNCHANGED err_vars
    /\ UNCHANGED visit_vars
    /\ UNCHANGED str_vars

\* helpers.rs:166-171: one turn of the loop over the arguments.
PassArgument ==
    /\ cf.pc = "args"
    /\ cf.next < Len(cf.args)
    /\ LET callee_arg == callee_args_next(cf.f, cf.next) IN
       IF ~callee_arg.ok
       THEN /\ cf' = [cf EXCEPT !.pc = "done", !.res = "panic"]
            /\ frames' = frames
       ELSE \E err \in {"none", "local_place", "write_immediate"} :
            IF err = "none"
            THEN /\ frames' = write_immediate(frames, callee_arg.val, cf.args[cf.next + 1])
                 /\ cf' = [cf EXCEPT !.next = cf.next + 1]
            ELSE /\ frames' = frames
                 /\ cf' = [cf EXCEPT !.pc = "done", !.res = "err", !.err = err]
    /\ UNCHANGED <<communicate, rng, hostent, gr, twin>>
    /\ UNCHANGED err_vars
    /\ UNCHANGED visit_vars
    /\ UNCHANGED str_vars

\* helpers.rs:172-174: the callee must have no parameter left.
FinishCall ==
    /\ cf.pc = "args"
    /\ cf.next = Len(cf.args)
    /\ cf' = [cf EXCEPT !.pc = "done", !.res = expect_none(cf.f, cf.next)]
    /\ UNCHANGED <<frames, communicate, rng, hostent, gr, twin>>
    /\ UNCHANGED err_vars
    /\ UNCHANGED visit_vars
    /\ UNCHANGED str_vars

NextCall ==
    \/ PushFrame
    \/ PassArgument
    \/ FinishCall

SpecCall == InitCall /\ [][NextCall]_vars

(***************************************************************************)
(* gen_random, run on two hosts side by side.                              *)
(***************************************************************************)
\* The pointers gen_random is given: null, the start of the allocation, its
\* last byte, and one past its end.
GenPtrs == {NullPtr, 0, MemSize - 1, Dangling}

\* The two executions start from the same seed and the same memory; their
\* hosts' entropy sources differ.
InitRandom ==
    /\ VisitIdle
    /\ ErrIdle
    /\ host = "unix" /\ target_os = "linux" /\ os_str = <<>> /\ size = 0
    /\ wr = NoWrite /\ rd = NoRead /\ alloc = NoAlloc /\ nwrites = 0
    /\ ptr = 0
    /\ mem = JunkMem
    /\ mem0 = mem
    /\ frames = <<>>
    /\ cf = NoCall
    /\ communicate \in BOOLEAN
    /\ rng \in 0..MaxSeed
    /\ hostent = HostEntropy(1, 0)
    /\ gr = NoGen
    /\ twin = Twin(mem, rng, HostEntropy(2, 0), "none")

\* One gen_random call, made in both executions with the same arguments; a
\* call that returns an error ends the run.
GenRandom ==
    /\ gr.n < MaxGenCalls
    /\ gr.res \in {"none", "ok"}
    /\ \E p \in GenPtrs, len \in 0..MaxGen :
       \E host_fails \in IF communicate /\ len > 0 THEN BOOLEAN ELSE {FALSE} :
       \E twin_fails \in IF communicate /\ len > 0 THEN BOOLEAN ELSE {FALSE} :
          LET g == gen_random(communicate, mem, rng, hostent, p, len, host_fails)
              t == gen_random(communicate, twin.mem, twin.rng, twin.host, p, len, twin_fails)
          IN  /\ mem' = g.mem /\ rng' = g.rng /\ hostent' = g.host
              /\ gr' = GenCall(gr.n + 1, len, host_fails, g.res, rng, hostent)
              /\ twin' = Twin(t.mem, t.rng, t.host, t.res)
              /\ ptr' = p
    /\ mem0' = mem
    /\ UNCHANGED <<host, target_os, os_str, size, wr, rd, alloc, nwrites>>
    /\ UNCHANGED <<frames, cf, communicate>>
    /\ UNCHANGED err_vars
    /\ UNCHANGED visit_vars

NextRandom == GenRandom

SpecRandom == InitRandom /\ [][NextRandom]_vars

(***************************************************************************)
(* The last-error slot, libc constants and the isolation check.            *)
(***************************************************************************)
\* helpers.rs:418-435: the libc constant of an io::ErrorKind, "none" for the
\* kinds of the `_` arm.
errno_name(kind) ==
    CASE kind = "ConnectionRefused" -> "ECONNREFUSED"
      [] kind = "ConnectionReset" -> "ECONNRESET"
      [] kind = "PermissionDenied" -> "EPERM"
      [] kind = "BrokenPipe" -> "EPIPE"
      [] kind = "NotConnected" -> "ENOTCONN"
      [] kind = "ConnectionAborted" -> "ECONNABORTED"
      [] kind = "AddrNotAvailable" -> "EADDRNOTAVAIL"
      [] kind = "AddrInUse" -> "EADDRINUSE"
      [] kind = "NotFound" -> "ENOENT"
      [] kind = "Interrupted" -> "EINTR"
      [] kind = "InvalidInput" -> "EINVAL"
      [] kind = "TimedOut" -> "ETIMEDOUT"
      [] kind = "AlreadyExists" -> "EEXIST"
      [] kind = "WouldBlock" -> "EWOULDBLOCK"
      [] OTHER -> "none"

\* The value of a libc constant of the target.
libc_value(name) ==
    CASE name = "ECONNREFUSED" -> 111
      [] name = "ECONNRESET" -> 104
      [] name = "EPERM" -> 1
      [] name = "EPIPE" -> 32
      [] name = "ENOTCONN" -> 107
      [] name = "ECONNABORTED" -> 103
      [] name = "EADDRNOTAVAIL" -> 99
      [] name = "EADDRINUSE" -> 98
      [] name = "ENOENT" -> 2
      [] name = "EINTR" -> 4
      [] name = "EINVAL" -> 22
      [] name = "ETIMEDOUT" -> 110
      [] name = "EEXIST" -> 17
      [] name = "EWOULDBLOCK" -> 11
      [] OTHER -> 0

\* helpers.rs:62-72: the scalar a path evaluates to, possibly undefined.
eval_path_scalar(undef, name) == IF name \in undef THEN Uninit ELSE libc_value(name)

\* The result of a helper: how it returned and the value of an Ok.
Res(r, val) == [res |-> r, val |-> val]

\* ScalarMaybeUndef::not_undef.
not_undef(scalar) == IF scalar = Uninit THEN Res("undef", 0) ELSE Res("ok", scalar)

\* helpers.rs:75-80.
eval_libc(undef, name) == not_undef(eval_path_scalar(undef, name))

\* What a helper that may write the slot did: how it returned, the value of
\* an Ok, guest memory afterwards, and the scalars that a successful
\* set_last_error was passed.
SetRes(r, val, m, passed) == [res |-> r, val |-> val, mem |-> m, passed |-> passed]

\* set_last_error writing the cell after the slot.
set_last_error_next_cell(m, errno_place, scalar, write_fails) ==
    IF write_fails THEN SetRes("err", 0, m, <<>>)
    ELSE SetRes("ok", 0, [m EXCEPT ![errno_place + 1] = scalar], <<scalar>>)

\* helpers.rs:398-402; write_scalar may return an error.
set_last_error(m, errno_place, scalar, write_fails) ==
    IF write_fails THEN SetRes("err", 0, m, <<>>)
    ELSE SetRes("ok", 0, [m EXCEPT ![errno_place] = scalar], <<scalar>>)

\* get_last_error giving 0 for a slot that was never written.
get_last_error_or_zero(m, errno_place) ==
    IF m[errno_place] = Uninit THEN Res("ok", 0) ELSE Res("ok", m[errno_place])

\* helpers.rs:405-409.
get_last_error(m, errno_place) == not_undef(m[errno_place])

\* helpers.rs:413-445.
set_last_error_from_io_error(m, errno_place, undef, target, kind, write_fails) ==
    IF target_family(target) = "unix"
    THEN IF errno_name(kind) = "none" THEN SetRes("unsup", 0, m, <<>>)
         ELSE LET last_err == eval_libc(undef, errno_name(kind)) IN
              IF last_err.res # "ok" THEN SetRes(last_err.res, 0, m, <<>>)
              ELSE set_last_error(m, errno_place, last_err.val, write_fails)
    ELSE SetRes("unsup", 0, m, <<>>)

\* A host I/O outcome: std::io::Result<T>.
IoOk(v) == [ok |-> TRUE, val |-> v, kind |-> "none"]
IoErr(kind) == [ok |-> FALSE, val |-> 0, kind |-> kind]

\* try_unwrap_io_result returning Ok(-1) whatever setting the error gave.
try_unwrap_io_result_swallow(m, errno_place, undef, target, result, write_fails) ==
    IF result.ok THEN SetRes("ok", result.val, m, <<>>)
    ELSE LET e == set_last_error_from_io_error(m, errno_place, undef, target,
                                               result.kind, write_fails)
         IN  SetRes("ok", -1, e.mem, e.passed)

\* helpers.rs:453-464.
try_unwrap_io_result(m, errno_place, undef, target, result, write_fails) ==
    IF result.ok THEN SetRes("ok", result.val, m, <<>>)
    ELSE LET e == set_last_error_from_io_error(m, errno_place, undef, target,
                                               result.kind, write_fails)
         IN  IF e.res # "ok" THEN e ELSE SetRes("ok", -1, e.mem, e.passed)

\* check_no_isolation with a message that does not name the function.
check_no_isolation_anonymous(comm, name) ==
    IF ~comm
    THEN [res |-> "stop", msg |-> <<"not available when isolation is enabled">>]
    ELSE [res |-> "ok", msg |-> <<>>]

\* helpers.rs:375-383; the message is the pieces of the format string, the
\* quotes around the name left out.
check_no_isolation(comm, name) ==
    IF ~comm
    THEN [res |-> "stop", msg |-> <<name, "not available when isolation is enabled">>]
    ELSE [res |-> "ok", msg |-> <<>>]

\* The inputs: error kinds the code names and two it does not, scalars,
\* success values, libc constants, foreign functions, and the targets of
\* the three families.
ErrorKinds == {"NotFound", "PermissionDenied", "WouldBlock", "TimedOut", "InvalidData", "Other"}
ErrScalars == {5}
IoValues == {0, 7}
LibcNames == {"ENOENT", "EINVAL"}
ShimNames == {"getcwd", "open"}
ErrTargets == {"linux", "windows", "wasi"}

\* The errno place holds 0 or has not been written; the constant ENOENT may
\* be undefined.
InitErr ==
    /\ VisitIdle
    /\ host = "unix" /\ os_str = <<>> /\ size = 0 /\ ptr = 0
    /\ wr = NoWrite /\ rd = NoRead /\ alloc = NoAlloc /\ nwrites = 0
    /\ frames = <<>> /\ cf = NoCall
    /\ rng = 0 /\ hostent = HostEntropy(0, 0) /\ gr = NoGen
    /\ twin = Twin(<<>>, 0, HostEntropy(0, 0), "none")
    /\ communicate \in BOOLEAN
    /\ target_os \in ErrTargets
    /\ last_error = MemSize - 2
    /\ mem \in {JunkMem, [JunkMem EXCEPT ![last_error] = Uninit]}
    /\ mem0 = mem
    /\ er = NoErrOp
    /\ last_set = NeverSet
    /\ libc_undef \in {{}, {"ENOENT"}}

\* The scalar of the most recent successful set_last_error after a helper
\* that passed the scalars `passed` to successful calls of it.
Remember(passed) ==
    IF passed = <<>> THEN last_set ELSE [set |-> TRUE, val |-> passed[Len(passed)]]

ErrFrame ==
    /\ UNCHANGED <<host, target_os, os_str, ptr, size, wr, rd, alloc, nwrites>>
    /\ UNCHANGED <<frames, cf, communicate, rng, hostent, gr, twin>>
    /\ UNCHANGED <<last_error, libc_undef>>
    /\ UNCHANGED visit_vars

SetLastError ==
    /\ \E scalar \in ErrScalars, write_fails \in BOOLEAN :
          LET r == set_last_error(mem, last_error, scalar, write_fails) IN
          /\ mem' = r.mem
          /\ er' = ErrOp("set_last_error", "none", scalar, r.res, r.val, <<>>)
          /\ last_set' = Remember(r.passed)
    /\ mem0' = mem
    /\ ErrFrame

GetLastError ==
    /\ LET r == get_last_error(mem, last_error) IN
          er' = ErrOp("get_last_error", "none", 0, r.res, r.val, <<>>)
    /\ mem0' = mem
    /\ UNCHANGED <<mem, last_set>>
    /\ ErrFrame

SetLastErrorFromIoError ==
    /\ \E kind \in ErrorKinds, write_fails \in BOOLEAN :
          LET r == set_last_error_from_io_error(mem, last_error, libc_undef, target_os,
                                                kind, write_fails) IN
          /\ mem' = r.mem
          /\ er' = ErrOp("set_last_error_from_io_error", kind, 0, r.res, r.val, <<>>)
          /\ last_set' = Remember(r.passed)
    /\ mem0' = mem
    /\ ErrFrame

TryUnwrapIoResult ==
    /\ \E result \in {IoOk(v) : v \in IoValues} \cup {IoErr(k) : k \in ErrorKinds},
          write_fails \in BOOLEAN :
          LET r == try_unwrap_io_result(mem, last_error, libc_undef, target_os,
                                        result, write_fails) IN
          /\ mem' = r.mem
          /\ er' = ErrOp("try_unwrap_io_result", result.kind, result.val, r.res, r.val, <<>>)
          /\ last_set' = Remember(r.passed)
    /\ mem0' = mem
    /\ ErrFrame

CheckNoIsolation ==
    /\ \E name \in ShimNames :
          LET r == check_no_isolation(communicate, name) IN
          er' = ErrOp("check_no_isolation", name, 0, r.res, 0, r.msg)
    /\ mem0' = mem
    /\ UNCHANGED <<mem, last_set>>
    /\ ErrFrame

EvalLibc ==
    /\ \E name \in LibcNames :
          LET r == eval_libc(libc_undef, name) IN
          er' = ErrOp("eval_libc", name, 0, r.res, r.val, <<>>)
    /\ mem0' = mem
    /\ UNCHANGED <<mem, last_set>>
    /\ ErrFrame

NextErr ==
    \/ SetLastError
    \/ GetLastError
    \/ SetLastErrorFromIoError
    \/ TryUnwrapIoResult
    \/ CheckNoIsolation
    \/ EvalLibc

SpecErr == InitErr /\ [][NextErr]_vars

(***************************************************************************)
(* Properties of visit_freeze_sensitive, checked under SpecVisit.          *)
(***************************************************************************)
RECURSIVE SumSizes(_)
SumSizes(cs) == IF cs = <<>> THEN 0 ELSE Head(cs).size + SumSizes(Tail(cs))

\* Where the region of a call ends.
EndOf(c) == c.ptr + c.size

\* C1: the calls of action come in strictly increasing offset order, each
\* region is non-empty, each starts where the one before ended, the first
\* starts at the start of the place, and when the visit returns Ok the last
\* ends at start + size: the regions partition [start, start + size) and
\* their lengths sum to size.
C1_RegionsPartitionPlace ==
    /\ \A i \in 1..Len(calls) : calls[i].size > 0
    /\ \A i \in 2..Len(calls) :
          /\ calls[i].ptr = EndOf(calls[i - 1])
          /\ calls[i].ptr > calls[i - 1].ptr
    /\ calls # <<>> => calls[1].ptr = place.ptr
    /\ res = "ok" =>
          /\ SumSizes(calls) = place.size
          /\ calls # <<>> => EndOf(calls[Len(calls)]) = place.ptr + place.size
          /\ end_ptr = place.ptr + place.size

C1_Witness ==
    /\ res = "ok"
    /\ Len(calls) >= 3
    /\ \E i \in 1..Len(calls) : ~calls[i].frozen

\* The visited place is a single-variant record, walked field by field, of
\* which exactly one direct field is an UnsafeCell, at a non-zero offset, and
\* every other direct field is Freeze; the visit returned Ok.
RecordWithOneCell ==
    /\ res = "ok"
    /\ root.seen /\ ~root.is_unsafe_cell /\ ~root.freeze
    /\ root.variants = "Single" /\ root.fields = "Arbitrary"
    /\ kids.ncells = 1 /\ ~kids.other
    /\ kids.ptr > place.ptr

ThreeCalls ==
    calls = << Call(place.ptr, kids.ptr - place.ptr, TRUE),
               Call(kids.ptr, kids.size, FALSE),
               Call(kids.ptr + kids.size,
                    place.ptr + place.size - (kids.ptr + kids.size), TRUE) >>

\* C2 as stated: a single-variant record that is otherwise frozen and has one
\* UnsafeCell field at a non-zero offset gets exactly three calls: the frozen
\* prefix, the non-frozen field, the frozen suffix.
C2_Original == RecordWithOneCell => ThreeCalls

\* C2, amended: the same, for an UnsafeCell field of non-zero size that ends
\* before the end of the record.
C2_ThreeCalls ==
    (RecordWithOneCell /\ kids.size > 0 /\ kids.ptr + kids.size < place.ptr + place.size)
        => ThreeCalls

C2_Witness ==
    /\ RecordWithOneCell
    /\ kids.size > 0
    /\ kids.ptr + kids.size < place.ptr + place.size
    /\ Len(calls) = 3

\* C3: a place whose type is Freeze gets no call with frozen = false; no
\* region-boundary step runs during the traversal, and the only one is the
\* trailing flush, which reports the whole extent as one frozen region when
\* size > 0 and nothing when size = 0.
C3_FrozenPlaceOnlyFlush ==
    (root.seen /\ root.freeze) =>
        /\ \A i \in 1..Len(calls) : calls[i].frozen
        /\ res = "running" => (nbound = 0 /\ calls = <<>>)
        /\ res = "ok" =>
              /\ nbound = 1
              /\ calls = IF place.size > 0
                         THEN <<Call(place.ptr, place.size, TRUE)>> ELSE <<>>

C3_Witness ==
    /\ root.seen /\ root.freeze
    /\ res = "ok"
    /\ place.size > 0
    /\ Len(calls) = 1

\* C4 as stated: no two consecutive calls carry the same frozen flag.
C4_Original ==
    \A i \in 2..Len(calls) : calls[i].frozen # calls[i - 1].frozen

\* C4, amended: no two consecutive calls are both frozen, so a frozen stretch
\* is never split; adjacent non-frozen sub-values are reported one by one.
C4_FrozenNeverSplit ==
    \A i \in 2..Len(calls) : ~(calls[i].frozen /\ calls[i - 1].frozen)

C4_Witness ==
    /\ res = "ok"
    /\ \E i \in 2..Len(calls) :
          /\ calls[i - 1].frozen
          /\ ~calls[i].frozen
    /\ calls[Len(calls)].frozen

(***************************************************************************)
(* The narrow and wide string operations.                                  *)
(***************************************************************************)
\* The host string has no NUL unit.
NoNul(s) == \A i \in 1..Len(s) : s[i] # 0

\* The host string has a narrow form: any bytes on a unix host, well-formed
\* UTF-16 on a windows host.
Encodable(h, s) == h = "unix" \/ utf16_decode(s).ok

\* The n bytes of the string as the guest sees them.
NarrowBytes(h, s) == IF h = "unix" THEN s ELSE utf8_encode(utf16_decode(s).val)

\* The last operation on memory was a narrow write, and a narrow read of the
\* same address followed it.
CStrRoundTrip == wr.op = "c_str" /\ rd.op = "c_str"

RoundTripOk ==
    /\ wr.res = "ok" /\ wr.fits /\ wr.len = os_str_len(host, os_str)
    /\ rd.ok /\ rd.str = os_str

\* C5 as stated: for every host string of byte length n, a narrow write into
\* capacity n+1 followed by a narrow read of the same address returns the
\* string and the write reports (true, n).
C5_Original ==
    (CStrRoundTrip /\ size = os_str_len(host, os_str) + 1) => RoundTripOk

\* C5: for every host string of byte length n that has no NUL and that the
\* host can hand over as bytes (any string on a unix host, well-formed
\* Unicode on a windows host), write_os_str_to_c_str into capacity n+1
\* followed by read_os_str_from_c_str at the same address returns the
\* original string, and the write reports (true, n).
C5_RoundTrip ==
    (/\ CStrRoundTrip
     /\ size = os_str_len(host, os_str) + 1
     /\ NoNul(os_str)
     /\ Encodable(host, os_str)) => RoundTripOk

C5_Witness ==
    /\ CStrRoundTrip
    /\ host = "windows"
    /\ os_str = <<55296, 56320>>
    /\ size = 5
    /\ rd.ok /\ rd.str = os_str

NothingWritten == wr.res = "ok" /\ ~wr.fits /\ wr.len = os_str_len(host, os_str) /\ mem = mem0

\* C6 as stated: for every string of byte length n and every capacity
\* c <= n the narrow write returns (false, n) and writes nothing.
C6_Original ==
    (wr.op = "c_str" /\ size <= os_str_len(host, os_str)) => NothingWritten

\* C6: for every string of byte length n that the host can hand over as
\* bytes and every capacity c <= n (c = n and c = 0 included),
\* write_os_str_to_c_str returns (false, n) and every byte of guest memory
\* is the same after the call as before it.
C6_TooSmallWritesNothing ==
    (/\ wr.op = "c_str"
     /\ size <= os_str_len(host, os_str)
     /\ Encodable(host, os_str)) => NothingWritten

C6_Witness ==
    /\ wr.op = "c_str"
    /\ os_str # <<>>
    /\ size = os_str_len(host, os_str)
    /\ wr.res = "ok" /\ ~wr.fits

\* The narrow write stored the n bytes and one zero byte at ptr, left every
\* other byte alone and returned (true, n).
WrittenExactly ==
    LET n == os_str_len(host, os_str)
        bytes == NarrowBytes(host, os_str)
    IN  /\ wr.res = "ok" /\ wr.fits /\ wr.len = n
        /\ Len(bytes) = n
        /\ \A i \in 1..n : mem[ptr + i - 1] = bytes[i]
        /\ mem[ptr + n] = 0
        /\ \A a \in Addr \ (ptr..(ptr + n)) : mem[a] = mem0[a]

\* C7 as stated: for every string of byte length n and every capacity c > n
\* the narrow write stores the n bytes and one zero byte at the address,
\* nothing else, and returns (true, n).
C7_Original ==
    (wr.op = "c_str" /\ size > os_str_len(host, os_str)) => WrittenExactly

\* C7: for every string of byte length n that the host can hand over as
\* bytes and every capacity c > n, write_os_str_to_c_str writes exactly n+1
\* bytes from the destination address on (the n bytes in order, then one
\* zero byte), leaves every byte outside [address, address+n+1) unchanged and
\* returns (true, n), n not counting the terminator.
C7_FitsWritesExactly ==
    (/\ wr.op = "c_str"
     /\ size > os_str_len(host, os_str)
     /\ Encodable(host, os_str)) => WrittenExactly

C7_Witness ==
    /\ wr.op = "c_str"
    /\ Len(os_str) = MaxLen
    /\ size > os_str_len(host, os_str) + 1
    /\ ptr > 0
    /\ wr.fits

\* The 16-bit unit stored at element idx of the array at ptr.
UnitAt(m, idx) == m[ptr + 2 * idx] + 256 * m[ptr + 2 * idx + 1]

\* C8: with u the number of 16-bit units of the encoded string,
\* write_os_str_to_wide_str returns (false, u) and writes nothing for a
\* capacity <= u; for a capacity > u it writes the u units at element
\* indices 0..u-1 and one 0x0000 unit at index u, nothing else, and returns
\* (true, u).
C8_WideWriteShape ==
    LET units == os_str_to_u16vec(host, os_str)
        u == Len(units.val)
    IN  (wr.op = "wide_str" /\ units.ok) =>
            /\ wr.res = "ok" /\ wr.len = u
            /\ wr.fits = (size > u)
            /\ size <= u => mem = mem0
            /\ size > u =>
                  /\ \A idx \in 0..(u - 1) : UnitAt(mem, idx) = units.val[idx + 1]
                  /\ UnitAt(mem, u) = 0
                  /\ \A a \in Addr \ (ptr..(ptr + 2 * u + 1)) : mem[a] = mem0[a]

C8_Witness ==
    /\ wr.op = "wide_str"
    /\ host = "unix"
    /\ os_str = <<195, 169>>
    /\ size = 2
    /\ wr.fits /\ wr.len = 1
    /\ UnitAt(mem, 0) = 233

(***************************************************************************)
(* The operations that dispatch on the guest target.                       *)
(***************************************************************************)
\* The encoding the code uses for a target.
EncodingOf(target) ==
    CASE target \in {"linux", "macos"} -> "narrow"
      [] target = "windows" -> "wide"
      [] OTHER -> "none"

\* The encoding the family of a target calls for.
EncodingOfFamily(target) ==
    CASE target_family(target) = "unix" -> "narrow"
      [] target_family(target) = "windows" -> "wide"
      [] OTHER -> "none"

\* The dispatching operations used the encoding enc, and with no encoding
\* failed without reading, allocating or writing.
Dispatched(enc) ==
    /\ mem = mem0
    /\ rd.op = "target_str" =>
          /\ rd.enc = enc
          /\ enc = "narrow" => rd.ok = read_os_str_from_c_str(host, mem, ptr).ok
          /\ enc = "wide" => rd.ok = read_os_str_from_wide_str(host, mem, ptr).ok
          /\ enc = "none" => ~rd.ok
    /\ alloc.res # "none" =>
          /\ alloc.enc = enc
          /\ enc = "narrow" => Cardinality(DOMAIN alloc.mem) = alloc.units
          /\ enc = "wide" => Cardinality(DOMAIN alloc.mem) = 2 * alloc.units
          /\ enc = "none" => alloc.res = "err" /\ alloc.units = 0 /\ DOMAIN alloc.mem = {}

\* C9 as stated: every Unix-like target uses the narrow encoding, every
\* Windows-like target the wide one, every other target fails.
C9_Original == Dispatched(EncodingOfFamily(target_os))

\* C9: read_os_str_from_target_str and alloc_os_str_as_target_str choose the
\* encoding from the guest target only, whatever the host: the targets
\* "linux" and "macos" use the narrow encoding, the target "windows" the
\* wide one, and every other target, the other Unix-like ones included,
\* fails with an unsupported-target error without reading, allocating or
\* writing anything.
C9_DispatchByTargetOs == Dispatched(EncodingOf(target_os))

C9_Witness ==
    /\ host = "unix"
    /\ target_os = "windows"
    /\ rd.op = "target_str" /\ rd.ok /\ rd.enc = "wide" /\ rd.str # <<>>
    /\ alloc.res = "ok" /\ alloc.enc = "wide"

(***************************************************************************)
(* The path operations.                                                    *)
(***************************************************************************)
\* C10: read_path_from_c_str returns the string read from guest memory with
\* every separator of the target replaced by the host's: every '\' becomes
\* '/' for a windows target on a unix host, every '/' becomes '\' for a unix
\* target on a windows host, and the path is unchanged when the two agree.
C10_ReadPathSeparators ==
    LET s == read_os_str_from_c_str(host, mem, ptr).val
        expected == IF host = "unix" /\ target_os = "windows"
                    THEN map_unit(s, Backslash, Slash)
                    ELSE IF host = "windows" /\ target_os # "windows"
                    THEN map_unit(s, Slash, Backslash)
                    ELSE s
    IN  (rd.op = "path" /\ rd.ok) => rd.str = expected

\* The separator of a host and of a target.
HostSep(h) == IF h = "windows" THEN Backslash ELSE Slash
TargetSep(target) == IF target = "windows" THEN Backslash ELSE Slash

\* The bytes stored from ptr up to the first zero byte.
BytesAt(m) == read_c_str(m, ptr).val

\* C11: write_path_to_c_str writes the host path with every host separator
\* replaced by the target's separator and every other unit unchanged and in
\* place, so the written length is the length of the host path; with host
\* and target agreeing the path is written unchanged; the (fits, length)
\* result and the memory follow write_os_str_to_c_str of the converted string.
C11_WritePathSeparators ==
    LET path == wr.str
        from == HostSep(host)
        to == TargetSep(target_os)
        converted == [i \in 1..Len(path) |-> IF path[i] = from THEN to ELSE path[i]]
        w == write_os_str_to_c_str(host, mem0, converted, ptr, size)
    IN  wr.op \in {"path", "path_back"} =>
            /\ wr.res = w.res /\ wr.fits = w.fits /\ wr.len = w.len /\ mem = w.mem
            /\ wr.res = "ok" => wr.len = os_str_len(host, path)
            /\ wr.fits => BytesAt(mem) = NarrowBytes(host, converted)

C11_Witness ==
    /\ wr.op = "path"
    /\ host = "unix" /\ target_os = "windows"
    /\ wr.str = <<Slash, Slash>>
    /\ wr.fits /\ wr.len = 2
    /\ BytesAt(mem) = <<Backslash, Backslash>>

\* The last write wrote back the path that read_path_from_c_str returned
\* for the bytes g the guest had stored, into a capacity that sufficed.
PathRoundTrip ==
    /\ wr.op = "path_back" /\ wr.fits
    /\ read_c_str(mem0, ptr).ok
    /\ read_path_from_c_str(host, target_os, mem0, ptr) = Ok(wr.str)

Has(g, c) == \E i \in 1..Len(g) : g[i] = c

\* C12 as stated: a guest path that does not mix '/' and '\' is written
\* back byte for byte, whatever the target and the host.
C12_Original ==
    (PathRoundTrip /\ ~(Has(BytesAt(mem0), Slash) /\ Has(BytesAt(mem0), Backslash)))
        => BytesAt(mem) = BytesAt(mem0)

\* C12: read_path_from_c_str followed by write_path_to_c_str of the resulting
\* host path (same configuration, sufficient capacity) writes back exactly
\* the original bytes when host and target agree on the separator or the
\* original does not contain the host's separator; when they disagree and
\* the original contains the host's separator the bytes written differ,
\* also for an original that holds only that one separator.
C12_RoundTripUnlessHostSep ==
    PathRoundTrip =>
        ((BytesAt(mem) = BytesAt(mem0))
            <=> (\/ HostSep(host) = TargetSep(target_os)
                 \/ ~Has(BytesAt(mem0), HostSep(host))))

C12_Witness ==
    /\ PathRoundTrip
    /\ host = "windows" /\ target_os = "linux"
    /\ BytesAt(mem0) = <<Slash, 97>>
    /\ wr.str = <<Backslash, 97>>
    /\ BytesAt(mem) = <<Slash, 97>>

(***************************************************************************)
(* The allocation helpers.                                                 *)
(***************************************************************************)
\* The bytes one unit of an encoding takes.
UnitBytes(enc) == IF enc = "wide" THEN 2 ELSE 1

\* The units of the allocation that the write initialized.
InitUnits(a) ==
    { k \in 0..(a.units - 1) :
        \A b \in 0..(UnitBytes(a.enc) - 1) : a.mem[UnitBytes(a.enc) * k + b] # Uninit }

\* C13 as stated: the allocation has exactly length+1 units, length being the
\* number of units of the encoded value, and so no unit beyond the terminator.
C13_Original ==
    alloc.res = "ok" =>
        /\ alloc.units = alloc.len + 1
        /\ InitUnits(alloc) = 0..(alloc.units - 1)

\* C13: alloc_os_str_as_target_str allocates exactly n+1 encoding units where
\* n is the byte length of the host string: under the narrow encoding that is
\* length+1, the encoded bytes and the terminator; under the wide encoding it
\* is at least length+1 16-bit units, with one unit left over, after the
\* terminator, for every byte by which the host string is longer than its
\* UTF-16 form (none for an ASCII string).
C13_AllocUnits ==
    alloc.res = "ok" =>
        /\ alloc.units = os_str_len(host, os_str) + 1
        /\ Cardinality(DOMAIN alloc.mem) = UnitBytes(alloc.enc) * alloc.units
        /\ alloc.enc = "narrow" => alloc.units = alloc.len + 1
        /\ alloc.enc = "wide" => alloc.units >= alloc.len + 1
        /\ InitUnits(alloc) = 0..alloc.len

C13_Witness ==
    /\ alloc.res = "ok" /\ alloc.enc = "wide"
    /\ host = "unix"
    /\ os_str = <<195, 169>>
    /\ alloc.len = 1 /\ alloc.units = 3
    /\ alloc.mem[4] = Uninit

\* The host string has a form in the encoding.
EncodableAs(enc, h, s) ==
    IF enc = "narrow" THEN os_str_to_bytes(h, s).ok ELSE os_str_to_u16vec(h, s).ok

\* C14: for every host string that is encodable in the dispatched encoding
\* the write inside alloc_os_str_as_c_str and alloc_os_str_as_wide_str fits:
\* the assertion on its result does not fail, the capacity being strictly
\* greater than the number of units the write needs.
C14_AllocWriteFits ==
    (alloc.res \in {"ok", "panic"} /\ EncodableAs(alloc.enc, host, os_str)) =>
        /\ alloc.res = "ok"
        /\ alloc.units > alloc.len

C14_Witness ==
    /\ alloc.res = "ok" /\ alloc.enc = "wide"
    /\ host = "windows"
    /\ os_str = <<55296, 56320>>
    /\ alloc.len = 2 /\ alloc.units = 5

(***************************************************************************)
(* Decoding failures.                                                      *)
(***************************************************************************)
\* C15: a guest string that does not decode gives an error result and no
\* string: on a host without raw-byte strings read_os_str_from_c_str fails
\* exactly when the NUL-terminated bytes are not valid UTF-8, on a host
\* without native wide strings read_os_str_from_wide_str fails exactly when
\* the 0x0000-terminated units are not valid UTF-16, and on a host with
\* native support for the encoding the read of a terminated string never
\* fails and returns the units as they are.
C15_DecodingFailures ==
    LET g == read_c_str(mem, ptr)
        u == read_wide_str(mem, ptr)
    IN  /\ ~rd.ok => rd.str = <<>>
        /\ (rd.op = "c_str" /\ g.ok) =>
              /\ host = "unix" => rd.ok /\ rd.str = g.val
              /\ host # "unix" => (rd.ok <=> utf8_decode(g.val).ok)
              /\ rd.ok => to_str(host, rd.str) = utf8_decode(g.val) \/ host = "unix"
        /\ (rd.op = "wide_str" /\ u.ok) =>
              /\ host = "windows" => rd.ok /\ rd.str = u.val
              /\ host # "windows" => (rd.ok <=> utf16_decode(u.val).ok)
              /\ rd.ok => to_str(host, rd.str) = utf16_decode(u.val) \/ host = "windows"

C15_Witness ==
    /\ host = "unix"
    /\ rd.op = "wide_str"
    /\ read_wide_str(mem, ptr) = Ok(<<97, 55296>>)
    /\ ~rd.ok /\ rd.str = <<>>

(***************************************************************************)
(* call_function.                                                          *)
(***************************************************************************)
\* The number of arguments differs from the number of declared parameters.
ArityDiffers == Len(cf.args) # arg_count(cf.f)

\* C16 as stated: call_function panics whenever the two counts differ and
\* returns Ok only when they are equal.
C16_Original ==
    cf.pc = "done" =>
        /\ ArityDiffers => cf.res = "panic"
        /\ cf.res = "ok" => ~ArityDiffers

\* C16: call_function returns Ok only when the number of arguments equals
\* the number of declared parameters; when they differ it panics, with fewer
\* parameters than arguments at the first argument that has no parameter and
\* with more parameters than arguments after the last argument, unless a
\* step before that point (loading the MIR, pushing the frame, locating or
\* writing an argument) has returned an error, which call_function returns;
\* it panics in no other case.
C16_ArityMismatchPanics ==
    cf.pc = "done" =>
        /\ cf.res \in {"ok", "err", "panic"}
        /\ cf.res = "ok" => ~ArityDiffers
        /\ cf.res = "err" <=> cf.err # "none"
        /\ cf.res = "panic" => ArityDiffers
        /\ (cf.res = "panic" /\ Len(cf.args) > arg_count(cf.f)) => cf.next = arg_count(cf.f)
        /\ (cf.res = "panic" /\ Len(cf.args) < arg_count(cf.f)) => cf.next = Len(cf.args)

C16_Witness ==
    /\ cf.pc = "done" /\ cf.res = "panic"
    /\ Len(cf.args) = 1 /\ arg_count(cf.f) = 2
    /\ cf.next = 1

\* The innermost frame.
Top == frames[Len(frames)]

\* The frame of the callee is on the stack above the frames the call found,
\* carries the destination and the cleanup policy, and its first k parameter
\* locals hold the first k arguments, every other local being unwritten.
CalleeFrame(k) ==
    /\ Len(frames) = Len(cf.base) + 1
    /\ SubSeq(frames, 1, Len(cf.base)) = cf.base
    /\ Top.instance = cf.f
    /\ Top.return_place = cf.dest
    /\ Top.return_to_block = cf.stack_pop
    /\ \A l \in LocalsOf(cf.f) :
          Top.locals[l] = IF l \in 1..k THEN cf.args[l] ELSE Uninit

\* C17: a successful call_function has pushed exactly one frame for the
\* callee, left the frames below unchanged, given the frame the destination
\* and the cleanup policy, and written the i-th argument to the i-th declared
\* parameter local for every i; the frame is on the stack before the first
\* argument is written and the arguments are written in order.
C17_FrameAndArguments ==
    /\ cf.pc = "args" => CalleeFrame(cf.next)
    /\ cf.res = "ok" => CalleeFrame(Len(cf.args)) /\ Len(cf.args) = arg_count(cf.f)

C17_Witness ==
    /\ cf.res = "ok"
    /\ cf.base # <<>>
    /\ cf.args = <<10, 20>>
    /\ Top.locals[1] = 10 /\ Top.locals[2] = 20
    /\ Top.return_place = "dest"

(***************************************************************************)
(* gen_random.                                                             *)
(***************************************************************************)
\* The bytes of guest memory the last call was given: len bytes from ptr on.
Dest == ptr..(ptr + gr.len - 1)

\* C18: gen_random with len == 0 returns Ok for every pointer (null, dangling
\* or valid) and either setting of the communicate flag, and does nothing: it
\* writes no guest memory, does not advance the generator and does not ask
\* the host's entropy source.
C18_ZeroLenNoOp ==
    (gr.n > 0 /\ gr.len = 0) =>
        /\ gr.res = "ok"
        /\ mem = mem0
        /\ rng = gr.rng0
        /\ hostent = gr.host0

C18_Witness ==
    /\ gr.n = 2 /\ gr.len = 0
    /\ ptr = NullPtr
    /\ communicate
    /\ hostent.draws = 1
    /\ gr.res = "ok"

\* C19: with the communicate flag off gen_random is deterministic: the bytes
\* it writes are the generator's and nothing of the host is asked, so the two
\* executions, started from the same seed and given the same calls on hosts
\* whose entropy sources differ, return the same results, hold the same
\* memory and end in the same generator state.
C19_DeterministicWhenIsolated ==
    ~communicate =>
        /\ twin.mem = mem /\ twin.rng = rng
        /\ gr.n > 0 => twin.res = gr.res
        /\ hostent.draws = 0 /\ twin.host.draws = 0
        /\ twin.host # hostent
        /\ (gr.n > 0 /\ gr.len > 0) =>
              /\ rng = fill_bytes(gr.rng0, gr.len).rng
              /\ gr.res = "ok" =>
                    \A a \in Dest : mem[a] = fill_bytes(gr.rng0, gr.len).data[a - ptr + 1]

C19_Witness ==
    /\ ~communicate
    /\ gr.n = 2 /\ gr.len = MaxGen /\ gr.res = "ok"
    /\ gr.rng0 # rng
    /\ mem0 # JunkMem /\ mem # mem0
    /\ twin.mem = mem

\* C20: with the communicate flag on and len > 0 gen_random takes its bytes
\* from the host's entropy source and leaves the generator as it was; when
\* the host's source fails it returns an unsupported-operation error and has
\* written nothing to guest memory.
C20_HostEntropy ==
    (communicate /\ gr.n > 0 /\ gr.len > 0) =>
        /\ rng = gr.rng0
        /\ hostent.draws = gr.host0.draws + 1
        /\ gr.host_fails => gr.res = "unsup" /\ mem = mem0
        /\ gr.res = "unsup" => gr.host_fails
        /\ gr.res = "ok" =>
              \A a \in Dest : mem[a] = host_bytes(gr.host0.state, gr.len)[a - ptr + 1]
        /\ gr.res # "ok" => mem = mem0

C20_Witness ==
    /\ communicate
    /\ gr.n = 2 /\ gr.len > 0
    /\ gr.host_fails /\ gr.res = "unsup"
    /\ ptr = 0
    /\ mem = mem0 /\ mem # JunkMem

(***************************************************************************)
(* The isolation check, the last-error slot and libc constants.            *)
(***************************************************************************)
\* Guest memory other than the errno place is as it was before the helper.
OnlySlotMayChange == \A a \in Addr \ {last_error} : mem[a] = mem0[a]

\* C21: check_no_isolation(name) returns Ok exactly when the communicate
\* flag is on; with the flag off it fails with UnsupportedInIsolation and a
\* message that contains the name; either way guest memory and the
\* last-error slot are as before.
C21_CheckNoIsolation ==
    er.op = "check_no_isolation" =>
        /\ er.res = "ok" <=> communicate
        /\ ~communicate =>
              /\ er.res = "stop"
              /\ \E i \in 1..Len(er.msg) : er.msg[i] = er.name
        /\ mem = mem0

C21_Witness ==
    /\ er.op = "check_no_isolation"
    /\ ~communicate
    /\ er.name = "open"
    /\ er.res = "stop"
    /\ last_set.set

\* The last helper was try_unwrap_io_result, given a success or an error.
UnwrapOfOk == er.op = "try_unwrap_io_result" /\ er.name = "none"
UnwrapOfErr == er.op = "try_unwrap_io_result" /\ er.name # "none"

\* The libc constant of the error kinds the runs use, "none" for a kind the
\* code does not translate.
ErrnoOf(kind) ==
    CASE kind = "NotFound" -> "ENOENT"
      [] kind = "PermissionDenied" -> "EPERM"
      [] kind = "WouldBlock" -> "EWOULDBLOCK"
      [] kind = "TimedOut" -> "ETIMEDOUT"
      [] OTHER -> "none"

\* The value of those constants on the target.
CodeOf(name) ==
    CASE name = "ENOENT" -> 2
      [] name = "EPERM" -> 1
      [] name = "EWOULDBLOCK" -> 11
      [] name = "ETIMEDOUT" -> 110
      [] OTHER -> 0

C23_OneSlot ==
    /\ last_set.set => mem[last_error] = last_set.val
    /\ (er.op = "get_last_error" /\ last_set.set) =>
          er.res = "ok" /\ er.val = last_set.val
    /\ er.op = "get_last_error" => mem = mem0
    /\ OnlySlotMayChange
    /\ \A a \in Addr \ {last_error} : mem[a] = Junk

C23_Witness ==
    /\ er.op = "get_last_error"
    /\ er.res = "ok" /\ er.val = 110
    /\ last_set = [set |-> TRUE, val |-> 110]
    /\ mem[last_error] = 110

\* C24: an undefined scalar is not turned into a value: get_last_error fails
\* with an undefined-value error when the slot has never been written, and
\* eval_libc fails with one when the constant evaluates to an undefined
\* scalar; a value is returned only for a defined scalar and is that scalar.
C24_UndefNotDefaulted ==
    /\ er.op = "get_last_error" =>
          /\ mem[last_error] = Uninit <=> er.res = "undef"
          /\ er.res = "ok" => er.val = mem[last_error]
          /\ er.res \in {"ok", "undef"}
    /\ er.op = "eval_libc" =>
          /\ er.name \in libc_undef <=> er.res = "undef"
          /\ er.res = "ok" => er.val = (IF er.name = "EINVAL" THEN 22 ELSE 2)
          /\ er.res \in {"ok", "undef"}

C24_Witness ==
    /\ er.op = "get_last_error"
    /\ ~last_set.set
    /\ mem[last_error] = Uninit
    /\ er.res = "undef"

\* C25: the fields of a single-variant aggregate are handed to the
\* region-boundary closure in non-decreasing offset order whatever their
\* declaration order: the direct fields still to come are sorted by offset,
\* the non-empty fields still to come (nested ones included) lie one after
\* the other and none starts before the cursor, the cursor end_ptr is never
\* before the end of a region already reported, and the assertion
\* unsafe_cell_offset >= end_offset never fails, at the final flush included.
C25_FieldsInOffsetOrder ==
    /\ res # "panic"
    /\ end_ptr >= place.ptr
    /\ \A i, j \in 1..Len(stack) :
          (i < j /\ stack[i].depth = 1 /\ stack[j].depth = 1)
              => stack[i].ptr <= stack[j].ptr
    /\ \A i, j \in 1..Len(stack) :
          (i < j /\ stack[i].size > 0 /\ stack[j].size > 0)
              => stack[i].ptr + stack[i].size <= stack[j].ptr
    /\ \A i \in 1..Len(stack) : stack[i].size > 0 => stack[i].ptr >= end_ptr
    /\ res \in {"running", "ok"} =>
          \A i \in 1..Len(calls) : EndOf(calls[i]) <= end_ptr
    /\ \A i, j \in 1..Len(calls) : i < j => calls[i].ptr < calls[j].ptr
    /\ res = "ok" => end_ptr = place.ptr + place.size

\* A struct whose fields were declared out of offset order, two of them
\* UnsafeCells, was visited to the end and both cells were reported.
C25_Witness ==
    /\ res = "ok"
    /\ root.seen /\ IsWalked(root) /\ root.fields = "Arbitrary"
    /\ kids.reordered
    /\ kids.ncells = 2 /\ ~kids.other
    /\ Cardinality({ i \in 1..Len(calls) : ~calls[i].frozen }) = 2

\* The calls of action for regions that are not frozen.
RECURSIVE NonFrozen(_)
NonFrozen(cs) ==
    IF cs = <<>> THEN <<>>
    ELSE IF Head(cs).frozen THEN NonFrozen(Tail(cs))
    ELSE <<Head(cs)>> \o NonFrozen(Tail(cs))

\* The visited place was not walked into: no field was handed to the visitor.
NotRecursed == nplaces = 1 /\ stack = <<>>

\* The visited place was reported whole, as one region that is not frozen.
WholeNonFrozen ==
    calls = IF place.size > 0 THEN <<Call(place.ptr, place.size, FALSE)>> ELSE <<>>

\* C26: visit_value classifies a value in this order and stops at the first
\* case that applies.  For the visited place: an UnsafeCell is reported whole
\* as one region that is not frozen and is not walked into; otherwise a
\* Freeze type (an enum included) gives no report of its own and is not
\* walked into; otherwise a type with several variants is reported whole as
\* one region that is not frozen, is not walked into and no byte of it is
\* read; only a remaining single-variant struct or array is walked field by field, and then it is
\* its fields, not the aggregate, that are reported.
C26_ClassifiedInOrder ==
    root.seen =>
        /\ (root.is_unsafe_cell /\ root.sized = "sized") =>
              NotRecursed /\ WholeNonFrozen
        /\ (~root.is_unsafe_cell /\ root.freeze) =>
              /\ NotRecursed
              /\ NonFrozen(calls) = <<>>
              /\ res = "running" => (calls = <<>> /\ nbound = 0)
        /\ (~root.is_unsafe_cell /\ ~root.freeze /\ root.variants = "Multiple") =>
              NotRecursed /\ WholeNonFrozen /\ arena.reads = 0
        /\ IsWalked(root) =>
              /\ nplaces = 1 => NonFrozen(calls) = <<>>
              /\ ~kids.other => Len(NonFrozen(calls)) <= kids.ncells
              /\ (kids.ncells = 0 /\ ~kids.other) => NonFrozen(calls) = <<>>

\* An enum that is not Freeze was visited to the end: it was reported whole
\* and not walked into.
C26_Witness ==
    /\ res = "ok"
    /\ root.seen /\ ~root.is_unsafe_cell /\ ~root.freeze /\ root.variants = "Multiple"
    /\ place.size > 0
    /\ calls = <<Call(place.ptr, place.size, FALSE)>>
    /\ nplaces = 1

\* The visited place is a union (single-variant, with fields).
RootIsUnion == root.seen /\ root.fields = "Union" /\ root.variants = "Single"

\* C27: a union is never visited field by field.  visit_aggregate given the
\* Union field arrangement panics, whatever fields it is handed; a visited
\* union is not walked into and no byte of it is read; when its type is not
\* Freeze it is reported whole as one region that is not frozen, and when its
\* type is Freeze no region that is not frozen is reported; the visit of a
\* union never panics.
C27_UnionOpaque ==
    /\ visit_aggregate(VisitorState, [fields |-> "Union"], stack).res = "panic"
    /\ visit_aggregate(VisitorState, [fields |-> "Union"], stack).push = <<>>
    /\ RootIsUnion =>
          /\ NotRecursed
          /\ arena.reads = 0
          /\ res # "panic"
          /\ ~root.freeze => WholeNonFrozen
          /\ root.freeze => NonFrozen(calls) = <<>>

\* A union that is not Freeze was visited to the end and reported whole.
C27_Witness ==
    /\ res = "ok"
    /\ RootIsUnion /\ ~root.freeze
    /\ place.size > 0
    /\ calls = <<Call(place.ptr, place.size, FALSE)>>

\* The visited place is a struct with one field, an UnsafeCell of an extern
\* type, and its visit is over.
OneExternCell == root.seen /\ IsWalked(root) /\ kids.extern /\ nplaces = 2 /\ stack = <<>>

\* The size computation of the visited place, an UnsafeCell, returned an error.
RootSizeError == root.seen /\ root.is_unsafe_cell /\ root.sized = "error"

\* An UnsafeCell field whose size is unknown is reported with layout.size.
ExternFallsBack ==
    /\ (kids.extern /\ res = "ok" /\ kids.lsize > 0) =>
          \E i \in 1..Len(calls) : calls[i] = Call(kids.eptr, kids.lsize, FALSE)
    /\ OneExternCell =>
          /\ res # "err"
          /\ res = "ok" =>
                NonFrozen(calls) = IF kids.lsize > 0
                                   THEN <<Call(kids.eptr, kids.lsize, FALSE)>> ELSE <<>>

\* C28 as stated: a failure of the size computation, whether "size unknown"
\* or an error, makes the visitor use layout.size and go on, and never makes
\* the traversal fail.
C28_Original ==
    /\ ExternFallsBack
    /\ res # "err"

\* C28: when size_and_align_of_mplace answers None for a sub-value that is
\* not frozen (an extern type), the region reported for it has the size
\* layout.size and the traversal goes on; when it returns an error, the
\* traversal fails with that error and nothing is reported for the sub-value.
C28_FallbackOnlyWhenUnknown ==
    /\ ExternFallsBack
    /\ RootSizeError => (res = "err" /\ calls = <<>> /\ NotRecursed)
    /\ res = "err" => arena.failed = <<>>

\* A struct whose one field is an UnsafeCell of an extern type was visited
\* to the end: the cell was reported with its layout.size, the rest frozen.
C28_Witness ==
    /\ OneExternCell
    /\ res = "ok"
    /\ kids.lsize > 0
    /\ kids.eptr + kids.lsize < place.ptr + place.size
    /\ calls[Len(calls)] = Call(kids.eptr + kids.lsize,
                                place.ptr + place.size - (kids.eptr + kids.lsize), TRUE)
    /\ NonFrozen(calls) = <<Call(kids.eptr, kids.lsize, FALSE)>>

\* The calls of action that returned Ok: all of them, but for the last one
\* when it is the one that returned the error.
Returned == IF arena.failed # <<>> THEN SubSeq(calls, 1, Len(calls) - 1) ELSE calls

\* C29: the traversal is read-only with respect to the allocation: at every
\* point of a visit no byte of guest memory has been read by the traversal,
\* the bytes of the allocation are what the calls of the caller's action
\* that returned made of them (untouched while no call was made), and of the
\* rest of the interpreter's memory nothing was read or written.
C29_TraversalLeavesArena ==
    /\ arena.reads = 0
    /\ arena.bytes = action(NoArena, Returned).bytes
    /\ calls = <<>> => arena = NoArena
    /\ mem = <<>> /\ wr = NoWrite /\ rd = NoRead

\* A struct was walked field by field and visited to the end; the action
\* was called for frozen and for non-frozen regions and changed the bytes.
C29_Witness ==
    /\ res = "ok"
    /\ nplaces >= 3
    /\ Len(calls) >= 2
    /\ NonFrozen(calls) # <<>>
    /\ arena.bytes # NoArena.bytes
    /\ arena.reads = 0

IsPrefix(a, b) == Len(a) <= Len(b) /\ SubSeq(b, 1, Len(a)) = a

\* What the step from the current state does when no call of action fails:
\* the visit_value call of the next sub-place under layout l, or the flush.
ErrorFreeStep(l) ==
    IF stack # <<>> THEN visit_value(VisitorState, Head(stack), l, <<>>, 0)
    ELSE unsafe_cell_action(VisitorState, place.ptr + place.size, 0, 0)

\* The step that ended the visit with an error of action made the first
\* calls, and only those, of the step that the same layout gives when no
\* call fails, which does not end the visit with an error.
PrefixOfErrorFree ==
    \E l \in (IF stack # <<>> THEN LayoutsOf(Head(stack)) ELSE {NoLayout}) :
        LET g == ErrorFreeStep(l) IN
        /\ g.res = "running"
        /\ IsPrefix(calls', g.calls)
        /\ Len(calls') > Len(calls)
        /\ calls'[Len(calls')] = arena'.failed[1]
        /\ arena'.bytes = action(arena, SubSeq(calls', Len(calls) + 1, Len(calls') - 1)).bytes

\* The visit returned the error of the call of action that failed, and that
\* call is the last one made.
ReturnsActionError ==
    /\ arena.failed # <<>> =>
          /\ res = "action_err"
          /\ calls # <<>>
          /\ calls[Len(calls)] = arena.failed[1]
    /\ res = "action_err" => arena.failed # <<>>

\* C30: when a call of action returns an error, visit_freeze_sensitive
\* returns that error at once: the failed call is the last call made, no step
\* of the visit (no later field, no flush) follows the return, and the calls
\* made are the first calls of the sequence that the visit makes when no call
\* fails.
C30_StopsAtActionError ==
    /\ []ReturnsActionError
    /\ [][ /\ res = "running"
           /\ res' = "action_err" => PrefixOfErrorFree ]_vars

\* The second call of action failed while fields of the visited struct were
\* still to come.
C30_Witness ==
    /\ res = "action_err"
    /\ Len(calls) >= 2
    /\ stack # <<>>
    /\ calls[Len(calls)] = arena.failed[1]
====
